---- MODULE Spec2Model ----
(***************************************************************************)
(* A model of the TBBO microstructure engine:                              *)
(*   - the columnar tape codec (encoder.go, loadFromFile),                 *)
(*   - the rolling window and the market-physics state machine (math.go),  *)
(*   - the horizon cursors of the per-event loops (metrics.go, decoder.go),*)
(*   - LoadQuantDev and the container pool (part_003, common.go),          *)
(*   - the statistics accumulators and Portfolio.MergeLocal (metrics.go),  *)
(*   - the study drivers and their goroutines (part_000, part_001),        *)
(*   - the signal engine, the horizon returns and the report metrics       *)
(*     RankIC and DeltaLogLoss (math.go, metrics.go, decoder.go).          *)
(*                                                                         *)
(* Each subsystem has its own specification (SpecCodec, SpecEncoderIO,     *)
(* SpecWindow, SpecPhysics, SpecPass, SpecMid, SpecSignals, SpecCursor,    *)
(* SpecLoader, SpecReuse, SpecChunks, SpecStats, SpecMetrics, SpecLocks,   *)
(* SpecDriver) over the variables it uses; the variables of the other      *)
(* subsystems are held at their initial values.                            *)
(*                                                                         *)
(* Numbers.  TLC's integers are 32 bits wide, so                           *)
(*   - a fixed-width integer is laid out on disk as its low three bytes    *)
(*     followed by its sign/zero extension; values are kept below 2^23 in  *)
(*     magnitude, which is where every value of the model lies;            *)
(*   - a float64 is the pair [m, e] standing for m * 10^e, and its eight   *)
(*     bytes are a stand-in for the IEEE-754 pattern: seven bytes of m in  *)
(*     two's complement and one byte holding -e.  The codec only moves     *)
(*     these bytes, it never does arithmetic on them;                      *)
(*   - timestamps are counted in units of ten seconds and wrap at TsMod,   *)
(*     the scaled 2^64; sequence numbers wrap at SeqMod, the scaled 2^32.  *)
(***************************************************************************)
EXTENDS Integers, Sequences, FiniteSets, TLC

VARIABLES
    \* codec
    enc,        \* Encoder: staging vectors, totalRows, chunkOffsets, closed
    file,       \* bytes of the encoder's output file (outFile)
    appended,   \* history: the records passed to AddRow, in order
    dec,        \* result of the last loadFromFile: status, locals, container
    tape,       \* history: the bytes the last loadFromFile was given
    \* rolling window
    rw,         \* a RollingWindow: Buf, Head, Sum, Size, Count
    fed,        \* history: the values passed to Update since construction / Reset
    ret,        \* the value the last Update returned
    \* market physics
    mp,         \* MarketPhysics: LastSeq, validHist, Prev*, five windows, LiqState
    atoms,      \* the Atoms record UpdateAtoms writes
    cur,        \* the row of the UpdateAtoms call in progress
    last,       \* locals and pre-state of the last UpdateAtoms call
    pc,         \* position in UpdateAtoms: "idle" or "checked" (after line 174)
    nEv,        \* number of UpdateAtoms calls completed
    hret,       \* the horizon return last computed: loop, rows, mids, result
    alphas,     \* the signal array SignalEngine.Compute writes
    \* horizon cursors
    tsEvents,   \* raw.TsEvent of the tape of the pass
    loop,       \* "none", "strategy", "study" (inside the loop) or "done"
    loopI,      \* the loop index i
    cursors,    \* cursors[h]
    icLen,      \* len(sigStats[s][h].Sig) for one signal s
    trdCount,   \* trdStats[s][h].Count for the same signal
    iter,       \* locals of the last iteration: i, starting cursors, returns
    \* LoadQuantDev
    pool,       \* the containers in TBBOPool
    held,       \* the containers LoadQuantDev has handed to callers
    lq,         \* the last LoadQuantDev call: magic read, container, outcome
    \* chunk sizes
    stream,     \* a record stream
    byChunk,    \* chunk size -> loadFromFile's result for the stream so encoded
    \* statistics and the portfolio
    locals,     \* worker -> its local SymbolReport and the Update calls made
    assets,     \* Portfolio.Assets: symbol -> global SymbolReport
    mergedOrder,\* the workers whose report was merged, in merge order
    mu,         \* holder of Portfolio.Mu, or "free"
    symLock,    \* symbol -> holder of that SymbolReport's Lock, or "free"
    wpc,        \* worker -> its position in runTest / MergeLocal
    metric,     \* the metric last computed from a report: function, ranks, value
    \* the study drivers and the container pool
    jobs,       \* the tape files of the run, in the order they are started
    drv,        \* the driver: which runTest, its position, next job, wg count
    sem,        \* number of tokens in the semaphore channel
    wk,         \* job -> position of its goroutine and the container it got
    tbbo,       \* TBBOPool: free containers, and per container owner, gets, puts
    ranLog,     \* history: job -> number of passes run over its tape
    master,     \* history: job -> number of merges of its report into the portfolio
    stale       \* history: a goroutine touched a container it did not own

codecVars == <<enc, file, appended, dec, tape>>

windowVars == <<rw, fed, ret>>

physVars == <<mp, atoms, cur, last, pc, nEv, hret, alphas>>

cursorVars == <<tsEvents, loop, loopI, cursors, icLen, trdCount, iter>>

loaderVars == <<pool, held, lq>>

\* the variables added after the four first subsystems
chunkVars == <<stream, byChunk>>

portfolioVars == <<locals, assets, mergedOrder, mu, symLock, wpc, metric>>

driverVars == <<jobs, drv, sem, wk, tbbo, ranLog, master, stale>>

restVars == <<loaderVars, chunkVars, portfolioVars, driverVars>>

vars == <<enc, file, appended, dec, tape, rw, fed, ret,
          mp, atoms, cur, last, pc, nEv, hret, alphas,
          tsEvents, loop, loopI, cursors, icLen, trdCount, iter,
          pool, held, lq, stream, byChunk,
          locals, assets, mergedOrder, mu, symLock, wpc, metric,
          jobs, drv, sem, wk, tbbo, ranLog, master, stale>>

-----------------------------------------------------------------------------
(* Bounds *)

ChunkSize == 2      \* rows per chunk (64 * 1024 in the source, scaled down)
MaxRows   == 5      \* at most this many AddRow calls per file

-----------------------------------------------------------------------------
(* Bytes and fixed-width values *)

Pow24 == 256 * 256 * 256

Pow256(k) == IF k = 0 THEN 1 ELSE IF k = 1 THEN 256 ELSE 256 * 256

ZeroBytes(n) == [k \in 1..n |-> 0]

\* k-th little-endian byte (k >= 1) of the two's-complement integer v
IntByte(v, k) ==
    IF k <= 3 THEN ((v % Pow24) \div Pow256(k - 1)) % 256
    ELSE IF v < 0 THEN 255 ELSE 0

\* the integer held by little-endian bytes b (Len(b) = width)
IntVal(b, signed) ==
    LET w  == Len(b)
        lw == IF w < 3 THEN w ELSE 3
        lo == IF lw = 1 THEN b[1]
              ELSE IF lw = 2 THEN b[1] + 256 * b[2]
              ELSE b[1] + 256 * b[2] + 256 * 256 * b[3]
    IN  IF w <= 3
        THEN IF signed /\ b[w] >= 128 THEN lo - Pow256(w) * (IF w = 3 THEN 256 ELSE 1)
             ELSE lo
        ELSE IF \A k \in 4..w : b[k] = 0 THEN lo
             ELSE IF signed /\ \A k \in 4..w : b[k] = 255 THEN lo - Pow24
             ELSE Pow24 + lo      \* a value of 2^24 or more: out of the modelled range

\* float64(x) * PxScale: a fixed-9 price as a float64
F64FromFixed9(x) == IF x = 0 THEN [m |-> 0, e |-> 0] ELSE [m |-> x, e |-> -9]

\* float64(x) of a uint32
F64FromU32(x) == [m |-> x, e |-> 0]

-----------------------------------------------------------------------------
(* Column layout *)

ColNames == {"TsEvent", "TsRecv", "TsInDelta", "Prices", "Sizes", "Sides",
             "Actions", "Flags", "Depth", "Sequences", "BidPx", "AskPx",
             "BidSz", "AskSz", "BidCt", "AskCt", "PublisherID", "InstrumentID"}

\* element type of each column (Encoder staging vectors, TBBOColumns)
Kind(c) ==
    CASE c \in {"TsEvent", "TsRecv"} -> "u64"
      [] c = "TsInDelta" -> "i32"
      [] c \in {"Prices", "Sizes", "BidPx", "AskPx", "BidSz", "AskSz"} -> "f64"
      [] c \in {"Sides", "Actions"} -> "i8"
      [] c \in {"Flags", "Depth"} -> "u8"
      [] c \in {"Sequences", "BidCt", "AskCt", "InstrumentID"} -> "u32"
      [] c = "PublisherID" -> "u16"

\* unsafe.Sizeof of an element
Width(kind) ==
    CASE kind \in {"u64", "f64"} -> 8
      [] kind \in {"i32", "u32"} -> 4
      [] kind = "u16" -> 2
      [] kind \in {"i8", "u8"} -> 1

Zero(kind) == IF kind = "f64" THEN [m |-> 0, e |-> 0] ELSE 0

\* k-th byte of the in-memory image of value v of the given element type
ByteOf(kind, v, k) ==
    IF kind = "f64"
    THEN IF k = 8 THEN (0 - v.e) % 256 ELSE IntByte(v.m, k)
    ELSE IntByte(v, k)

\* asBytes(s): the raw bytes of a slice
asBytes(kind, s) ==
    LET w == Width(kind)
    IN  [k \in 1..(Len(s) * w) |-> ByteOf(kind, s[((k - 1) \div w) + 1], ((k - 1) % w) + 1)]

\* the value whose in-memory image is the bytes b
ValOf(kind, b) ==
    IF kind = "f64"
    THEN [m |-> IntVal(SubSeq(b, 1, 7), TRUE), e |-> 0 - b[8]]
    ELSE IntVal(b, kind \in {"i8", "i32"})

-----------------------------------------------------------------------------
(* Exact arithmetic for float64 values: a rational [n, d] in lowest terms,  *)
(* d > 0.  The model does not round.                                       *)

Abs(x) == IF x < 0 THEN 0 - x ELSE x

RECURSIVE GCD(_, _)
GCD(a, b) == IF b = 0 THEN a ELSE GCD(b, a % b)

QNorm(n, d) ==
    LET g == GCD(Abs(n), d)
    IN  [n |-> n \div g, d |-> d \div g]

QInt(v) == [n |-> v, d |-> 1]

QAdd(x, y) == QNorm(x.n * y.d + y.n * x.d, x.d * y.d)

QSub(x, y) == QNorm(x.n * y.d - y.n * x.d, x.d * y.d)

QNeg(x) == [n |-> 0 - x.n, d |-> x.d]

\* x / float64(k), k > 0
QDivInt(x, k) == QNorm(x.n, x.d * k)

QZero == QInt(0)

-----------------------------------------------------------------------------
(* RollingWindow (math.go) *)

MaxWindowSize == 3  \* NewRollingWindow is called with 0..MaxWindowSize
MaxFed        == 4  \* at most this many Updates between two Resets

\* NewRollingWindow(n)
NewRollingWindow(n) ==
    LET size == IF n <= 0 THEN 1 ELSE n
    IN  [Buf |-> [j \in 1..size |-> QZero], Head |-> 0, Sum |-> QZero,
         Size |-> size, Count |-> 0]

\* an Update that divides by the capacity, not by the number of values held
RollingWindowUpdate_DivBySize(r, val) ==
    LET sum  == QAdd(QSub(r.Sum, r.Buf[r.Head + 1]), val)
        cnt  == IF r.Count < r.Size THEN r.Count + 1 ELSE r.Count
    IN  [r   |-> [r EXCEPT !.Buf[r.Head + 1] = val, !.Sum = sum,
                           !.Head = (r.Head + 1) % r.Size, !.Count = cnt],
         ret |-> QDivInt(sum, r.Size)]

\* RollingWindow.Update(val): the window afterwards and the value returned
RollingWindowUpdate(r, val) ==
    IF r.Size = 0 THEN [r |-> r, ret |-> val]
    ELSE LET sum  == QAdd(QSub(r.Sum, r.Buf[r.Head + 1]), val)
             cnt  == IF r.Count < r.Size THEN r.Count + 1 ELSE r.Count
         IN  [r   |-> [r EXCEPT !.Buf[r.Head + 1] = val, !.Sum = sum,
                                !.Head = (r.Head + 1) % r.Size, !.Count = cnt],
              ret |-> QDivInt(sum, cnt)]

\* RollingWindow.Reset()
RollingWindowReset(r) ==
    [r EXCEPT !.Buf = [j \in 1..Len(r.Buf) |-> QZero], !.Sum = QZero,
              !.Head = 0, !.Count = 0]

\* the values a caller feeds a window
WindowInputs == {QInt(-3), QInt(0), QInt(2), QInt(5), [n |-> 1, d |-> 2]}

\* no window under study
WindowStart ==
    /\ rw = NewRollingWindow(1)
    /\ fed = <<>>
    /\ ret = QZero

Update(val) ==
    /\ Len(fed) < MaxFed
    /\ LET u == RollingWindowUpdate(rw, val)
       IN  /\ rw' = u.r
           /\ ret' = u.ret
    /\ fed' = Append(fed, val)
    /\ UNCHANGED <<codecVars, physVars, cursorVars, restVars>>

ResetWindow ==
    /\ rw' = RollingWindowReset(rw)
    /\ fed' = <<>>
    /\ UNCHANGED ret
    /\ UNCHANGED <<codecVars, physVars, cursorVars, restVars>>

-----------------------------------------------------------------------------
(* MarketPhysics (math.go) *)

\* capacities of the five windows (64, 128, 128, 32, 64 in the source, scaled)
OFIWindowSize     == 2
AvgSzWindowSize   == 3
UrgencyWindowSize == 1
SweepWindowSize   == 2

SeqMod    == 4      \* sequence numbers are uint32: they wrap at SeqMod (2^32 scaled)
MaxEvents == 3      \* at most this many UpdateAtoms calls per pass

QMul(x, y) == QNorm(x.n * y.n, x.d * y.d)

QLt(x, y) == x.n * y.d < y.n * x.d

QAbs(x) == [n |-> Abs(x.n), d |-> x.d]

WindowNames == {"OFIWindow", "AvgBidSzWindow", "AvgAskSzWindow",
                "UrgencyWindow", "SweepWindow"}

\* LiquidationState{}
LiquidationIdle ==
    [Active |-> FALSE, Side |-> 0, StartPrice |-> QZero, MaxPrice |-> QZero,
     Volume |-> QZero, LastSeq |-> 0]

NewMarketPhysics ==
    [LastSeq |-> 0, validHist |-> FALSE,
     PrevTime |-> 0, PrevBidSz |-> QZero, PrevAskSz |-> QZero,
     PrevBidPx |-> QZero, PrevAskPx |-> QZero,
     PrevPrice |-> QZero, PrevMid |-> QZero,
     OFIWindow      |-> NewRollingWindow(OFIWindowSize),
     AvgBidSzWindow |-> NewRollingWindow(AvgSzWindowSize),
     AvgAskSzWindow |-> NewRollingWindow(AvgSzWindowSize),
     UrgencyWindow  |-> NewRollingWindow(UrgencyWindowSize),
     SweepWindow    |-> NewRollingWindow(SweepWindowSize),
     LiqState |-> LiquidationIdle]

\* var atoms Atoms: the fields UpdateAtoms writes
ZeroAtoms ==
    [MidPrice |-> QZero, RawOFI |-> QZero, CrowdSkew |-> QZero,
     LatUrgency |-> QZero, SweepKappa |-> QZero, LiqStrength |-> QZero]

\* the top of book an event carries: quotes, sizes, order counts, flags and
\* the send delta.  Sizes 5 -> 3 is a drop by 2, 5 -> 1 a drop by 4; an ask
\* size of 2 is what a trade of size 2 just sweeps, a size of 1 is swept twice.
Books ==
    { [BidPx |-> QInt(100), AskPx |-> QInt(101), BidSz |-> QInt(5), AskSz |-> QInt(5),
       BidCt |-> 2, AskCt |-> 5, Flags |-> 0,   TsInDelta |-> 0],
      [BidPx |-> QInt(100), AskPx |-> QInt(102), BidSz |-> QInt(3), AskSz |-> QInt(2),
       BidCt |-> 0, AskCt |-> 1, Flags |-> 128, TsInDelta |-> 1],
      [BidPx |-> QInt(99),  AskPx |-> QInt(101), BidSz |-> QInt(5), AskSz |-> QInt(3),
       BidCt |-> 1, AskCt |-> 0, Flags |-> 64,  TsInDelta |-> -1],
      [BidPx |-> QInt(101), AskPx |-> QInt(102), BidSz |-> QInt(1), AskSz |-> QInt(1),
       BidCt |-> 1, AskCt |-> 1, Flags |-> 130, TsInDelta |-> 1] }

\* what happened: a book update ('A'), a buy or a sell of size 2 ('T'), a
\* trade of size 2 with no aggressor side
Kinds ==
    { [Action |-> 65, Side |-> 0,  Size |-> QInt(0)],
      [Action |-> 84, Side |-> 0,  Size |-> QInt(2)],
      [Action |-> 84, Side |-> 1,  Size |-> QInt(2)],
      [Action |-> 84, Side |-> -1, Size |-> QInt(2)] }

\* how far an event's sequence number is from the previous one
SeqSteps == {1, 2}

\* row i of the columns, as UpdateAtoms reads it; a buy prints at the ask,
\* a sell at the bid, a book update carries no price
Row(seq, ts, k, b) ==
    [Sequence |-> seq, TsEvent |-> ts,
     Action |-> k.Action, Side |-> k.Side, Size |-> k.Size,
     Price |-> IF k.Side = 1 THEN b.AskPx ELSE IF k.Side = -1 THEN b.BidPx ELSE QZero,
     BidPx |-> b.BidPx, AskPx |-> b.AskPx, BidSz |-> b.BidSz, AskSz |-> b.AskSz,
     BidCt |-> b.BidCt, AskCt |-> b.AskCt, Flags |-> b.Flags, TsInDelta |-> b.TsInDelta]

NoRow == Row(0, 0, [Action |-> 0, Side |-> 0, Size |-> QZero],
             [BidPx |-> QZero, AskPx |-> QZero, BidSz |-> QZero, AskSz |-> QZero,
              BidCt |-> 0, AskCt |-> 0, Flags |-> 0, TsInDelta |-> 0])

\* a gap detection that leaves SweepWindow as it is
SequenceGapCheck_KeepSweep(m, currentSeq) ==
    LET m1 == IF m.validHist /\ currentSeq # (m.LastSeq + 1) % SeqMod
              THEN [m EXCEPT !.OFIWindow      = RollingWindowReset(@),
                             !.AvgBidSzWindow = RollingWindowReset(@),
                             !.AvgAskSzWindow = RollingWindowReset(@),
                             !.UrgencyWindow  = RollingWindowReset(@),
                             !.LiqState  = LiquidationIdle,
                             !.validHist = FALSE]
              ELSE m
    IN  [m1 EXCEPT !.LastSeq = currentSeq]

\* 0) sequence gap detection, up to mp.LastSeq = currentSeq
SequenceGapCheck(m, currentSeq) ==
    LET m1 == IF m.validHist /\ currentSeq # (m.LastSeq + 1) % SeqMod
              THEN [m EXCEPT !.OFIWindow      = RollingWindowReset(@),
                             !.AvgBidSzWindow = RollingWindowReset(@),
                             !.AvgAskSzWindow = RollingWindowReset(@),
                             !.UrgencyWindow  = RollingWindowReset(@),
                             !.SweepWindow    = RollingWindowReset(@),
                             !.LiqState  = LiquidationIdle,
                             !.validHist = FALSE]
              ELSE m
    IN  [m1 EXCEPT !.LastSeq = currentSeq]

Mid(ev) == QDivInt(QAdd(ev.BidPx, ev.AskPx), 2)

\* a snapshot-and-bail that leaves a.SweepKappa as it is
SnapshotAndBail_KeepKappa(m, a, ev) ==
    [mp |-> [m EXCEPT !.PrevBidSz = ev.BidSz, !.PrevAskSz = ev.AskSz,
                      !.PrevBidPx = ev.BidPx, !.PrevAskPx = ev.AskPx,
                      !.PrevTime = ev.TsEvent, !.PrevMid = Mid(ev),
                      !.validHist = TRUE],
     atoms |-> [a EXCEPT !.MidPrice = Mid(ev), !.RawOFI = QZero, !.CrowdSkew = QZero,
                         !.LatUrgency = QZero, !.LiqStrength = QZero],
     ofiVal |-> QZero]

\* a snapshot-and-bail that leaves validHist false
SnapshotAndBail_StayInvalid(m, a, ev) ==
    [mp |-> [m EXCEPT !.PrevBidSz = ev.BidSz, !.PrevAskSz = ev.AskSz,
                      !.PrevBidPx = ev.BidPx, !.PrevAskPx = ev.AskPx,
                      !.PrevTime = ev.TsEvent, !.PrevMid = Mid(ev)],
     atoms |-> [a EXCEPT !.MidPrice = Mid(ev), !.RawOFI = QZero, !.CrowdSkew = QZero,
                         !.LatUrgency = QZero, !.SweepKappa = QZero,
                         !.LiqStrength = QZero],
     ofiVal |-> QZero]

\* first valid tick, or first after a gap: snapshot and bail
SnapshotAndBail(m, a, ev) ==
    [mp |-> [m EXCEPT !.PrevBidSz = ev.BidSz, !.PrevAskSz = ev.AskSz,
                      !.PrevBidPx = ev.BidPx, !.PrevAskPx = ev.AskPx,
                      !.PrevTime = ev.TsEvent, !.PrevMid = Mid(ev),
                      !.validHist = TRUE],
     atoms |-> [a EXCEPT !.MidPrice = Mid(ev), !.RawOFI = QZero, !.CrowdSkew = QZero,
                         !.LatUrgency = QZero, !.SweepKappa = QZero,
                         !.LiqStrength = QZero],
     ofiVal |-> QZero]

\* an ofiVal with the sign of the passive change turned round on trades
OrderFlow_AddDelta(m, ev) ==
    IF ev.Action = 84
    THEN IF ev.Side = 1 THEN QSub(ev.Size, QSub(ev.AskSz, m.PrevAskSz))
         ELSE IF ev.Side = -1 THEN QAdd(QNeg(ev.Size), QSub(ev.BidSz, m.PrevBidSz))
         ELSE QZero
    ELSE QSub(QSub(ev.BidSz, m.PrevBidSz), QSub(ev.AskSz, m.PrevAskSz))

\* an ofiVal that takes a book update for a trade with no aggressor
OrderFlow_TradesOnly(m, ev) ==
    IF ev.Side = 1 THEN QAdd(ev.Size, QSub(ev.AskSz, m.PrevAskSz))
    ELSE IF ev.Side = -1 THEN QSub(QNeg(ev.Size), QSub(ev.BidSz, m.PrevBidSz))
    ELSE QZero

\* 1) ofiVal: q*I - dQ_passive on a trade, dQb - dQa on a book update
OrderFlow(m, ev) ==
    IF ev.Action = 84
    THEN IF ev.Side = 1 THEN QAdd(ev.Size, QSub(ev.AskSz, m.PrevAskSz))
         ELSE IF ev.Side = -1 THEN QSub(QNeg(ev.Size), QSub(ev.BidSz, m.PrevBidSz))
         ELSE QZero
    ELSE QSub(QSub(ev.BidSz, m.PrevBidSz), QSub(ev.AskSz, m.PrevAskSz))

\* 2) size per order on one side, 0 when the side has no order
AvgOrder(sz, ct) == IF ct > 0 THEN QDivInt(sz, ct) ELSE QZero

\* a trade with an aggressor and a size
IsAggressiveTrade(ev) == ev.Action = 84 /\ ev.Side # 0 /\ QLt(QZero, ev.Size)

\* max(1, log1p(max(d, 0))): log1p(d) < 1 for d <= 1, the send deltas of Books
Log1pDenom(d) == 1

\* 3) size over the clamped log of the send delta, signed by the aggressor
Urgency(ev) ==
    IF IsAggressiveTrade(ev)
    THEN QMul(QDivInt(ev.Size, Log1pDenom(ev.TsInDelta)), QInt(ev.Side))
    ELSE QZero

\* x > Epsilon for a size x, which is a whole number (a converted uint32)
AboveEpsilon(x) == x.n >= 1

\* a ratio that is dropped at the threshold itself
RawKappa_Strict(q, prev) ==
    LET k == QNorm(q.n * prev.d, q.d * prev.n)
    IN  IF QLt(QInt(1), k) THEN k ELSE QZero

\* q / prev, kept when it is at least 1
RawKappa(q, prev) ==
    LET k == QNorm(q.n * prev.d, q.d * prev.n)
    IN  IF ~QLt(k, QInt(1)) THEN k ELSE QZero

\* 4) sweep penetration: size over the previous contra size, only if >= 1
Kappa(m, ev) ==
    IF ~IsAggressiveTrade(ev) THEN QZero
    ELSE IF ev.Side = 1
         THEN IF AboveEpsilon(m.PrevAskSz) THEN RawKappa(ev.Size, m.PrevAskSz) ELSE QZero
    ELSE IF ev.Side = -1
         THEN IF AboveEpsilon(m.PrevBidSz) THEN QNeg(RawKappa(ev.Size, m.PrevBidSz)) ELSE QZero
    ELSE QZero

\* a run that goes on through a retracement
LiquidationRun_NoRetrace(l, ev, currentSeq) ==
    LET resetRun == l.Active /\ ev.Side # l.Side
        l1 == IF resetRun THEN LiquidationIdle ELSE l
    IN  IF ~l1.Active
        THEN [Active |-> TRUE, Side |-> ev.Side, StartPrice |-> ev.Price,
              MaxPrice |-> ev.Price, Volume |-> ev.Size, LastSeq |-> currentSeq]
        ELSE [l1 EXCEPT !.Volume = QAdd(@, ev.Size),
                        !.MaxPrice = IF \/ ev.Side = 1  /\ QLt(@, ev.Price)
                                        \/ ev.Side = -1 /\ QLt(ev.Price, @)
                                     THEN ev.Price ELSE @,
                        !.LastSeq = currentSeq]

\* 5) the liquidation run after a trade: reset on a flip or a retracement,
\* a run that keeps the sequence number of its first trade
LiquidationRun_KeepSeq(l, ev, currentSeq) ==
    LET resetRun == /\ l.Active
                    /\ \/ ev.Side # l.Side
                       \/ ev.Side = 1  /\ QLt(ev.Price, l.MaxPrice)
                       \/ ev.Side = -1 /\ QLt(l.MaxPrice, ev.Price)
        l1 == IF resetRun THEN LiquidationIdle ELSE l
    IN  IF ~l1.Active
        THEN [Active |-> TRUE, Side |-> ev.Side, StartPrice |-> ev.Price,
              MaxPrice |-> ev.Price, Volume |-> ev.Size, LastSeq |-> currentSeq]
        ELSE [l1 EXCEPT !.Volume = QAdd(@, ev.Size),
                        !.MaxPrice = IF \/ ev.Side = 1  /\ QLt(@, ev.Price)
                                        \/ ev.Side = -1 /\ QLt(ev.Price, @)
                                     THEN ev.Price ELSE @]

\* then start or continue the run
LiquidationRun(l, ev, currentSeq) ==
    LET resetRun == /\ l.Active
                    /\ \/ ev.Side # l.Side
                       \/ ev.Side = 1  /\ QLt(ev.Price, l.MaxPrice)
                       \/ ev.Side = -1 /\ QLt(l.MaxPrice, ev.Price)
        l1 == IF resetRun THEN LiquidationIdle ELSE l
    IN  IF ~l1.Active
        THEN [Active |-> TRUE, Side |-> ev.Side, StartPrice |-> ev.Price,
              MaxPrice |-> ev.Price, Volume |-> ev.Size, LastSeq |-> currentSeq]
        ELSE [l1 EXCEPT !.Volume = QAdd(@, ev.Size),
                        !.MaxPrice = IF \/ ev.Side = 1  /\ QLt(@, ev.Price)
                                        \/ ev.Side = -1 /\ QLt(ev.Price, @)
                                     THEN ev.Price ELSE @,
                        !.LastSeq = currentSeq]

\* a strength that ignores the flags
LiquidationStrength_NoFlag(l, ev) ==
    LET priceDev == QAbs(QSub(ev.Price, l.StartPrice))
        strength == QMul(l.Volume, QAdd(QInt(1), QMul(priceDev, QInt(100))))
    IN  QMul(strength, QInt(l.Side))

\* Volume * (1 + |p - StartPrice| * 100), doubled under flag bit 128, signed
LiquidationStrength(l, ev) ==
    LET priceDev == QAbs(QSub(ev.Price, l.StartPrice))
        strength == QMul(l.Volume, QAdd(QInt(1), QMul(priceDev, QInt(100))))
        flagged  == (ev.Flags \div 128) % 2 = 1
    IN  QMul(IF flagged THEN QMul(strength, QInt(2)) ELSE strength, QInt(l.Side))

\* a.LiqStrength *= 0.95
Decay(x) == QMul(x, [n |-> 19, d |-> 20])

\* UpdateAtoms after the gap check: the atoms of event ev and the next state
ComputeAtoms(m, a, ev) ==
    IF ~m.validHist THEN SnapshotAndBail(m, a, ev)
    ELSE
    LET ofiVal == OrderFlow(m, ev)
        ofi    == RollingWindowUpdate(m.OFIWindow, ofiVal)
        sBid   == RollingWindowUpdate(m.AvgBidSzWindow, AvgOrder(ev.BidSz, ev.BidCt))
        sAsk   == RollingWindowUpdate(m.AvgAskSzWindow, AvgOrder(ev.AskSz, ev.AskCt))
        urg    == RollingWindowUpdate(m.UrgencyWindow, Urgency(ev))
        swp    == RollingWindowUpdate(m.SweepWindow, Kappa(m, ev))
        liq    == IF IsAggressiveTrade(ev)
                  THEN LiquidationRun(m.LiqState, ev, m.LastSeq)
                  ELSE m.LiqState
        str    == IF IsAggressiveTrade(ev)
                  THEN LiquidationStrength(liq, ev)
                  ELSE Decay(a.LiqStrength)
    IN  [mp |-> [m EXCEPT !.OFIWindow = ofi.r,
                          !.AvgBidSzWindow = sBid.r, !.AvgAskSzWindow = sAsk.r,
                          !.UrgencyWindow = urg.r, !.SweepWindow = swp.r,
                          !.LiqState = liq,
                          !.PrevTime = ev.TsEvent,
                          !.PrevBidSz = ev.BidSz, !.PrevAskSz = ev.AskSz,
                          !.PrevBidPx = ev.BidPx, !.PrevAskPx = ev.AskPx,
                          !.PrevMid = Mid(ev),
                          !.PrevPrice = IF ev.Action = 84 /\ QLt(QZero, ev.Price)
                                        THEN ev.Price ELSE @],
         atoms |-> [MidPrice |-> Mid(ev), RawOFI |-> ofi.ret,
                    CrowdSkew |-> QSub(sBid.ret, sAsk.ret),
                    LatUrgency |-> urg.ret, SweepKappa |-> swp.ret,
                    LiqStrength |-> str],
         ofiVal |-> ofiVal]

\* nothing observed yet; otherwise the row of the last call and what the call
\* found: validHist and LastSeq on entry, the snapshot sizes, run sub-state and
\* liquidation strength before the atoms were computed
NoCall == [ev |-> NoRow, hadHist |-> FALSE, prevSeq |-> 0, bailed |-> FALSE,
           ofiVal |-> QZero, PrevBidSz |-> QZero, PrevAskSz |-> QZero,
           liqBefore |-> LiquidationIdle, strBefore |-> QZero]

\* no horizon return computed yet
NoReturn == [loop |-> "none", ev |-> NoRow, fut |-> NoRow,
             mid |-> QZero, futMid |-> QZero, logged |-> FALSE, ret |-> "none"]

\* var alphas [NumSignals]float64
NumSignals == 6

ZeroSignals == [k \in 1..NumSignals |-> [k |-> "num", v |-> QZero]]

PhysicsStart ==
    /\ hret = NoReturn
    /\ alphas = ZeroSignals
    /\ mp = NewMarketPhysics
    /\ atoms = ZeroAtoms
    /\ cur = NoRow
    /\ last = NoCall
    /\ pc = "idle"
    /\ nEv = 0

\* UpdateAtoms, lines 163-174: the gap check on row ev
UpdateAtomsCheck(ev) ==
    /\ pc = "idle"
    /\ nEv < MaxEvents
    /\ mp' = SequenceGapCheck(mp, ev.Sequence)
    /\ cur' = ev
    /\ last' = [last EXCEPT !.hadHist = mp.validHist, !.prevSeq = mp.LastSeq]
    /\ pc' = "checked"
    /\ UNCHANGED <<atoms, nEv, hret, alphas>>
    /\ UNCHANGED <<codecVars, windowVars, cursorVars, restVars>>

\* UpdateAtoms, lines 176-373: the atoms of the row and the state update
UpdateAtomsCompute ==
    /\ pc = "checked"
    /\ LET r == ComputeAtoms(mp, atoms, cur)
       IN  /\ mp' = r.mp
           /\ atoms' = r.atoms
           /\ last' = [last EXCEPT !.ev = cur, !.bailed = ~mp.validHist,
                                   !.ofiVal = r.ofiVal,
                                   !.PrevBidSz = mp.PrevBidSz,
                                   !.PrevAskSz = mp.PrevAskSz,
                                   !.liqBefore = mp.LiqState,
                                   !.strBefore = atoms.LiqStrength]
    /\ cur' = NoRow
    /\ pc' = "idle"
    /\ nEv' = nEv + 1
    /\ UNCHANGED <<hret, alphas>>
    /\ UNCHANGED <<codecVars, windowVars, cursorVars, restVars>>

\* the rows a tape can hold next: any book, any kind, the next sequence
\* number or one further on
NextRows ==
    { Row((mp.LastSeq + d) % SeqMod, nEv + 1, k, b) :
        d \in SeqSteps, k \in Kinds, b \in Books }

\* RunStrategy, before its loop: mp := NewMarketPhysics() and the previous
\* snapshot primed from row 0, which last.ev remembers
PassCalls == 2      \* UpdateAtoms calls of one RunStrategy pass (rows - 1)

FirstRows ==
    { Row(seq, 0, k, b) : seq \in {0, SeqMod - 1}, k \in Kinds, b \in Books }

RunStrategyPrime(ev) ==
    /\ pc = "idle" /\ nEv = 0 /\ last = NoCall
    /\ mp' = [mp EXCEPT !.PrevTime = ev.TsEvent, !.PrevPrice = ev.Price,
                        !.PrevMid = Mid(ev),
                        !.PrevBidSz = ev.BidSz, !.PrevAskSz = ev.AskSz]
    /\ last' = [last EXCEPT !.ev = ev]
    /\ UNCHANGED <<atoms, cur, pc, nEv, hret, alphas>>
    /\ UNCHANGED <<codecVars, windowVars, cursorVars, restVars>>

\* the rows that can follow in the tape of the pass
PassRows ==
    { Row(((IF nEv = 0 THEN last.ev.Sequence ELSE mp.LastSeq) + d) % SeqMod,
          nEv + 1, k, b) : d \in SeqSteps, k \in Kinds, b \in Books }

\* the loop of RunStrategy calls UpdateAtoms for rows 1, 2, ...
RunStrategyUpdateAtoms ==
    /\ last # NoCall
    /\ nEv < PassCalls
    /\ \E ev \in PassRows : UpdateAtomsCheck(ev)

\* the horizon returns of the two loops.  A price column is a float64 of a
\* whole number of 1e-9 units, so a mid is below epsilon = 1e-9 exactly when
\* it is below half a price unit of this model.
Epsilon == [n |-> 1, d |-> 2]

\* a book with nothing on either side: both quotes are 0
EmptyBook ==
    [BidPx |-> QZero, AskPx |-> QZero, BidSz |-> QZero, AskSz |-> QZero,
     BidCt |-> 0, AskCt |-> 0, Flags |-> 0, TsInDelta |-> 0]

\* rows of a thin tape: a quoted or an empty book, a book update or a buy
\* that printed at 100
ThinRows(seq, ts) ==
    { [Row(seq, ts, k, b) EXCEPT !.Price = IF k.Action = 84 THEN QInt(100) ELSE QZero] :
        k \in { kk \in Kinds : kk.Side >= 0 /\ (kk.Action = 84 => kk.Side = 1) },
        b \in { bb \in Books : bb.Flags = 0 } \cup {EmptyBook} }

\* math.Log(futMid / mid) in float64: x / 0 is +Inf, -Inf or NaN; the log of
\* +Inf is +Inf, of 0 is -Inf, of a negative number or NaN is NaN
LogOfRatio(futMid, mid) ==
    IF mid.n = 0
    THEN IF futMid.n > 0 THEN "+Inf" ELSE "NaN"
    ELSE IF (futMid.n > 0 /\ mid.n > 0) \/ (futMid.n < 0 /\ mid.n < 0) THEN "num"
         ELSE IF futMid.n = 0 THEN "-Inf" ELSE "NaN"

\* RunStrategy, lines 717-719, for one horizon whose cursor stands on row fut:
\* futMid := (bidPxs[c] + askPxs[c]) * 0.5; retLog := math.Log(futMid / atoms.MidPrice)
RunStrategyReturn(fut) ==
    /\ pc = "idle" /\ nEv >= 1 /\ last # NoCall
    /\ hret' = [loop |-> "strategy", ev |-> last.ev, fut |-> fut,
                mid |-> atoms.MidPrice, futMid |-> Mid(fut), logged |-> TRUE,
                ret |-> LogOfRatio(Mid(fut), atoms.MidPrice)]
    /\ UNCHANGED <<mp, atoms, cur, last, pc, nEv, alphas>>
    /\ UNCHANGED <<codecVars, windowVars, cursorVars, restVars>>

\* RunMultiHorizonStudy, lines 209-213: the mid of a row, the trade price
\* when the book mid is below epsilon
RobustMid(ev) == IF QLt(Mid(ev), Epsilon) THEN ev.Price ELSE Mid(ev)

\* RunMultiHorizonStudy, lines 233-246, for row ev and a cursor on row fut
\* inside the tape
RunMultiHorizonStudyReturn(ev, fut) ==
    /\ pc = "idle" /\ nEv = 0 /\ last = NoCall
    /\ hret' = [loop |-> "study", ev |-> ev, fut |-> fut,
                mid |-> RobustMid(ev), futMid |-> RobustMid(fut),
                logged |-> QLt(Epsilon, RobustMid(ev)) /\ QLt(Epsilon, RobustMid(fut)),
                ret |-> IF QLt(Epsilon, RobustMid(ev)) /\ QLt(Epsilon, RobustMid(fut))
                        THEN LogOfRatio(RobustMid(fut), RobustMid(ev))
                        ELSE "NaN"]
    /\ UNCHANGED <<mp, atoms, cur, last, pc, nEv, alphas>>
    /\ UNCHANGED <<codecVars, windowVars, cursorVars, restVars>>

-----------------------------------------------------------------------------
(* Signal engine (math.go SignalEngine.Compute).  A float64 is a finite     *)
(* rational, an infinity or NaN.                                            *)

Flt(n, d) == [k |-> "num", v |-> QNorm(n, d)]

NaN == [k |-> "nan", v |-> 0]

PInf == [k |-> "pinf", v |-> 0]

NInf == [k |-> "ninf", v |-> 0]

\* x * c for a positive finite constant c
FScale(x, c) == IF x.k = "num" THEN [k |-> "num", v |-> QMul(x.v, c.v)] ELSE x

\* x < y; false when either is NaN
FLess(x, y) ==
    /\ x.k # "nan" /\ y.k # "nan"
    /\ IF x.k = "num" /\ y.k = "num" THEN QLt(x.v, y.v)
       ELSE IF x.k = "ninf" THEN y.k # "ninf"
       ELSE IF x.k = "pinf" THEN FALSE
       ELSE y.k = "pinf"

\* x + y
FSum(x, y) ==
    IF x.k = "nan" \/ y.k = "nan" THEN NaN
    ELSE IF x.k = "num" /\ y.k = "num" THEN [k |-> "num", v |-> QAdd(x.v, y.v)]
    ELSE IF x.k = "num" THEN y
    ELSE IF y.k = "num" THEN x
    ELSE IF x.k = y.k THEN x ELSE NaN

\* math.Abs(x)
FAbs(x) ==
    IF x.k = "num" THEN [k |-> "num", v |-> QAbs(x.v)]
    ELSE IF x.k = "nan" THEN NaN ELSE PInf

\* clampFloat64 without its upper test
clampFloat64_NoUpper(x, lo, hi) == IF FLess(x, lo) THEN lo ELSE x

\* clampFloat64: if x < lo return lo; if x > hi return hi; return x
clampFloat64(x, lo, hi) ==
    IF FLess(x, lo) THEN lo ELSE IF FLess(hi, x) THEN hi ELSE x

\* indices into the signal array, which is numbered from 1 here
SigIdx_TrueOFI         == 1
SigIdx_Crowding        == 2
SigIdx_LatUrgency      == 3
SigIdx_SweepDepth      == 4
SigIdx_Liquidation     == 5
SigIdx_IntegratedState == 6

\* SignalEngine.Compute(atoms, mp, raw, i, out): the array it leaves in out
SignalEngineCompute(a, m, raw, i, out) ==
    LET zeroed == [k \in 1..NumSignals |-> Flt(0, 1)]
        ofi    == clampFloat64(FScale(a.RawOFI, Flt(1, 2)), Flt(-5, 1), Flt(5, 1))
        crowd  == clampFloat64(FScale(a.CrowdSkew, Flt(1, 5)), Flt(-5, 1), Flt(5, 1))
        lat    == clampFloat64(FScale(a.LatUrgency, Flt(2, 1)), Flt(-5, 1), Flt(5, 1))
        sweep  == clampFloat64(FScale(a.SweepKappa, Flt(2, 1)), Flt(-5, 1), Flt(5, 1))
        liqSig == IF FLess(Flt(50, 1), FAbs(a.LiqStrength))
                  THEN FScale(a.LiqStrength, Flt(1, 100)) ELSE Flt(0, 1)
        liq    == clampFloat64(liqSig, Flt(-5, 1), Flt(5, 1))
        vectorSum ==
            FSum(FSum(FSum(FSum(FScale(ofi, Flt(3, 2)), FScale(sweep, Flt(6, 5))),
                           FScale(crowd, Flt(4, 5))),
                      FScale(lat, Flt(1, 2))),
                 FScale(liq, Flt(1, 1)))
    IN  [zeroed EXCEPT ![SigIdx_TrueOFI] = ofi,
                       ![SigIdx_Crowding] = crowd,
                       ![SigIdx_LatUrgency] = lat,
                       ![SigIdx_SweepDepth] = sweep,
                       ![SigIdx_Liquidation] = liq,
                       ![SigIdx_IntegratedState] = clampFloat64(vectorSum, Flt(-10, 1), Flt(10, 1))]

\* atom vectors handed to Compute: small and large values of either sign,
\* infinities and NaN
AtomVectors ==
    [RawOFI      : {Flt(4, 1), Flt(-12, 1), PInf, NaN},
     CrowdSkew   : {Flt(1, 1), Flt(30, 1), NaN},
     LatUrgency  : {Flt(-1, 1), Flt(3, 1)},
     SweepKappa  : {Flt(0, 1), Flt(3, 1), NInf},
     LiqStrength : {Flt(50, 1), Flt(-51, 1), Flt(600, 1), NaN}]

\* what the output array can hold before the call
StaleSignals == [k \in 1..NumSignals |-> Flt(7 * k, 1)]

\* signals.Compute(&atoms, mp, raw, i, &alphas) in the loop of RunStrategy
Compute ==
    /\ pc = "idle"
    /\ alphas' = SignalEngineCompute(atoms, mp, cur, nEv, alphas)
    /\ UNCHANGED <<mp, atoms, cur, last, pc, nEv, hret>>
    /\ UNCHANGED <<codecVars, windowVars, cursorVars, restVars>>

-----------------------------------------------------------------------------
(* Horizon cursors of the per-event loops (metrics.go RunStrategy,          *)
(* decoder.go RunMultiHorizonStudy).  A timestamp is a uint64 counted here  *)
(* in units of ten seconds; the sum ts + horizon wraps at TsMod.            *)

HzCount == 3

HorizonDurations == <<1, 2, 3>>     \* 10 s, 20 s, 30 s

TsMod           == 6    \* timestamps are uint64: they wrap at TsMod (2^64 scaled)
MaxTape         == 4    \* at most this many rows on a tape
StrategyMinRows == 2    \* RunStrategy returns at once under 2000 rows (scaled)
StudyMinRows    == 1    \* RunMultiHorizonStudy returns under 1000 rows (scaled)
maxICSamples    == 2    \* cap of an ICStats sample list (100000, scaled)

\* the value of one signal after SignalEngine.Compute: negative, zero, positive
Signals == {-1, 0, 1}

Horizons == 1..HzCount

\* for c < n && tsEvents[c] < tgt { c++ }
RECURSIVE Advance(_, _, _)
Advance(t, c, tgt) ==
    IF c < Len(t) /\ t[c + 1] < tgt THEN Advance(t, c + 1, tgt) ELSE c

\* RunStrategy's chase for one horizon, without the floor c = i
StrategyCursor_NoFloor(t, k, c0, h) ==
    LET tgt == (t[k + 1] + HorizonDurations[h]) % TsMod
        c2  == Advance(t, c0, tgt)
    IN  IF c2 >= Len(t) THEN Len(t) - 1 ELSE c2

\* RunStrategy's chase for one horizon at event k, from cursor c0
StrategyCursor(t, k, c0, h) ==
    LET c1  == IF c0 < k THEN k ELSE c0
        tgt == (t[k + 1] + HorizonDurations[h]) % TsMod
        c2  == Advance(t, c1, tgt)
    IN  IF c2 >= Len(t) THEN Len(t) - 1 ELSE c2

\* RunMultiHorizonStudy's chase for one horizon at event k, from cursor c0
StudyCursor(t, k, c0, h) ==
    LET c1  == IF c0 < k THEN k ELSE c0
        tgt == (t[k + 1] + HorizonDurations[h]) % TsMod
    IN  Advance(t, c1, tgt)

\* ICStats.Observe on a signal and a return that are numbers: the new length
Observe(len) == IF len < maxICSamples THEN len + 1 ELSE len

NoIter == [i |-> 0, start |-> [h \in Horizons |-> 0],
           ret |-> [h \in Horizons |-> "none"],
           observed |-> [h \in Horizons |-> FALSE],
           updated  |-> [h \in Horizons |-> FALSE]]

\* no pass under way; the tape is any sequence of timestamps
CursorIdle ==
    /\ loop = "none"
    /\ loopI = 0
    /\ cursors = [h \in Horizons |-> 0]
    /\ icLen = [h \in Horizons |-> 0]
    /\ trdCount = [h \in Horizons |-> 0]
    /\ iter = NoIter

CursorStart ==
    /\ tsEvents = <<>>
    /\ CursorIdle

\* RunStrategy up to its loop
RunStrategyBegin ==
    /\ loop = "none"
    /\ IF Len(tsEvents) < StrategyMinRows
       THEN /\ loop' = "done"
            /\ UNCHANGED loopI
       ELSE /\ loop' = IF 1 < Len(tsEvents) THEN "strategy" ELSE "done"
            /\ loopI' = 1
    /\ cursors' = [h \in Horizons |-> 0]
    /\ UNCHANGED <<tsEvents, icLen, trdCount, iter>>
    /\ UNCHANGED <<codecVars, windowVars, physVars, restVars>>

\* one iteration of RunStrategy's loop: the chase for every horizon, then one
\* observation and one pseudo-trade per horizon for a signal of value sig.
\* The tapes here carry quoted books, so the mids are positive and retLog is a
\* number (RunStrategyReturn has the other case).
RunStrategyStep(sig) ==
    /\ loop = "strategy"
    /\ cursors' = [h \in Horizons |-> StrategyCursor(tsEvents, loopI, cursors[h], h)]
    /\ icLen' = [h \in Horizons |-> Observe(icLen[h])]
    /\ trdCount' = [h \in Horizons |-> IF sig = 0 THEN trdCount[h] ELSE trdCount[h] + 1]
    /\ iter' = [i |-> loopI, start |-> cursors,
                ret |-> [h \in Horizons |-> "num"],
                observed |-> [h \in Horizons |-> icLen[h] < maxICSamples],
                updated  |-> [h \in Horizons |-> sig # 0]]
    /\ loopI' = loopI + 1
    /\ loop' = IF loopI + 1 < Len(tsEvents) THEN "strategy" ELSE "done"
    /\ UNCHANGED tsEvents
    /\ UNCHANGED <<codecVars, windowVars, physVars, restVars>>

\* RunMultiHorizonStudy up to its loop
RunMultiHorizonStudyBegin ==
    /\ loop = "none"
    /\ loop' = IF Len(tsEvents) < StudyMinRows \/ Len(tsEvents) = 0 THEN "done" ELSE "study"
    /\ loopI' = 0
    /\ cursors' = [h \in Horizons |-> 0]
    /\ UNCHANGED <<tsEvents, icLen, trdCount, iter>>
    /\ UNCHANGED <<codecVars, windowVars, physVars, restVars>>

\* one iteration of RunMultiHorizonStudy's loop, part A: the chase and the
\* returns; a cursor that ran off the tape gives NaN
RunMultiHorizonStudyStep ==
    /\ loop = "study"
    /\ cursors' = [h \in Horizons |-> StudyCursor(tsEvents, loopI, cursors[h], h)]
    /\ iter' = [i |-> loopI, start |-> cursors,
                ret |-> [h \in Horizons |->
                            IF StudyCursor(tsEvents, loopI, cursors[h], h) >= Len(tsEvents)
                            THEN "NaN" ELSE "num"],
                observed |-> [h \in Horizons |-> FALSE],
                updated  |-> [h \in Horizons |-> FALSE]]
    /\ loopI' = loopI + 1
    /\ loop' = IF loopI + 1 < Len(tsEvents) THEN "study" ELSE "done"
    /\ UNCHANGED <<tsEvents, icLen, trdCount>>
    /\ UNCHANGED <<codecVars, windowVars, physVars, restVars>>

-----------------------------------------------------------------------------
(* Encoder (encoder.go) *)

\* the order in which flushChunk writes the column blocks
EncColOrder ==
    <<"TsEvent", "TsRecv", "TsInDelta", "Prices", "Sizes", "Sides", "Actions",
      "Flags", "Depth", "Sequences", "BidPx", "AskPx", "BidSz", "AskSz",
      "BidCt", "AskCt", "PublisherID", "InstrumentID">>

MagicGNC == <<71, 78, 67, 52>>      \* "GNC4"

HeaderSize == 64

\* the records convertDBNToQuantDev may hand to AddRow: every field of a
\* record differs from its neighbours', so a swapped column shows
Records ==
    { [pubID |-> 1, instrID |-> 2, tsE |-> 3, tsR |-> 4, tsD |-> -5,
       pxRaw |-> 6, sz |-> 7, side |-> 1, action |-> 84, fl |-> 128,
       depth |-> 0, seq |-> 9, bpRaw |-> 10, apRaw |-> 11, bs |-> 12,
       as |-> 13, bc |-> 14, ac |-> 15],
      [pubID |-> 300, instrID |-> 70000, tsE |-> 65539, tsR |-> 65800,
       tsD |-> 5, pxRaw |-> -1, sz |-> 0, side |-> -1, action |-> 65,
       fl |-> 0, depth |-> 1, seq |-> 66000, bpRaw |-> 0, apRaw |-> 257,
       bs |-> 400, as |-> 0, bc |-> 0, ac |-> 1] }

\* the value AddRow appends to staging vector c for the arguments r
Staged(c, r) ==
    CASE c = "TsEvent" -> r.tsE
      [] c = "TsRecv" -> r.tsR
      [] c = "TsInDelta" -> r.tsD
      [] c = "Prices" -> F64FromFixed9(r.pxRaw)
      [] c = "Sizes" -> F64FromU32(r.sz)
      [] c = "Sides" -> r.side
      [] c = "Actions" -> r.action
      [] c = "Flags" -> r.fl
      [] c = "Depth" -> r.depth
      [] c = "Sequences" -> r.seq
      [] c = "BidPx" -> F64FromFixed9(r.bpRaw)
      [] c = "AskPx" -> F64FromFixed9(r.apRaw)
      [] c = "BidSz" -> F64FromU32(r.bs)
      [] c = "AskSz" -> F64FromU32(r.as)
      [] c = "BidCt" -> r.bc
      [] c = "AskCt" -> r.ac
      [] c = "PublisherID" -> r.pubID
      [] c = "InstrumentID" -> r.instrID

\* binary.LittleEndian.PutUint32 / PutUint64
PutUint(v, w) == [k \in 1..w |-> IntByte(v, k)]

RECURSIVE ColumnBlocks(_, _)
\* the column blocks of one chunk, from the k-th column of the write order on
ColumnBlocks(stage, k) ==
    IF k > Len(EncColOrder) THEN <<>>
    ELSE asBytes(Kind(EncColOrder[k]), stage[EncColOrder[k]])
         \o ColumnBlocks(stage, k + 1)

\* NewEncoder: empty staging vectors, a zeroed 64-byte header on disk
NewEncoder ==
    [stage |-> [c \in ColNames |-> <<>>], totalRows |-> 0,
     chunkOffsets |-> <<>>, closed |-> FALSE, failed |-> 0]

\* a writeFooter that takes the footer position after writing the index
writeFooter_PosAfterIndex(e, f) ==
    LET index  == PutUint(Len(e.chunkOffsets), 4)
                  \o asBytes("u64", e.chunkOffsets)
        footerPos == Len(f) + Len(index)
        header == MagicGNC \o ZeroBytes(4) \o PutUint(e.totalRows, 8)
                  \o ZeroBytes(8) \o PutUint(footerPos, 8) \o ZeroBytes(32)
    IN  header \o SubSeq(f, HeaderSize + 1, Len(f)) \o index

\* a flushChunk that records the offset behind the chunk's length word
flushChunk_OffsetAfterLen(e, f) ==
    LET n == Len(e.stage["TsEvent"])
    IN  IF n = 0 THEN <<e, f>>
        ELSE << [e EXCEPT !.chunkOffsets = Append(@, Len(f) + 4),
                          !.stage = [c \in ColNames |-> <<>>]],
                f \o PutUint(n, 4) \o ColumnBlocks(e.stage, 1) >>

\* a flushChunk that writes the chunk and keeps the staged rows
flushChunk_KeepStage(e, f) ==
    LET n == Len(e.stage["TsEvent"])
    IN  IF n = 0 THEN <<e, f>>
        ELSE << [e EXCEPT !.chunkOffsets = Append(@, Len(f))],
                f \o PutUint(n, 4) \o ColumnBlocks(e.stage, 1) >>

\* flushChunk: <<encoder, file>> after flushing the staging vectors of e
flushChunk(e, f) ==
    LET n == Len(e.stage["TsEvent"])
    IN  IF n = 0 THEN <<e, f>>
        ELSE << [e EXCEPT !.chunkOffsets = Append(@, Len(f)),
                          !.stage = [c \in ColNames |-> <<>>]],
                f \o PutUint(n, 4) \o ColumnBlocks(e.stage, 1) >>

\* writeFooter: the chunk index, then the header rewritten in place
writeFooter(e, f) ==
    LET footerPos == Len(f)
        index  == PutUint(Len(e.chunkOffsets), 4)
                  \o asBytes("u64", e.chunkOffsets)
        header == MagicGNC \o ZeroBytes(4) \o PutUint(e.totalRows, 8)
                  \o ZeroBytes(8) \o PutUint(footerPos, 8) \o ZeroBytes(32)
    IN  header \o SubSeq(f, HeaderSize + 1, Len(f)) \o index

MaxWriteErrors == 1     \* at most this many failed writes to the output file

RECURSIVE FirstBlocks(_, _)
\* the blocks of the first m columns of the write order
FirstBlocks(stage, m) ==
    IF m = 0 THEN <<>>
    ELSE FirstBlocks(stage, m - 1)
         \o asBytes(Kind(EncColOrder[m]), stage[EncColOrder[m]])

\* flushChunk whose write number w fails (0 is the length word): the offset
\* is recorded, the writes before w are in the file, the error is returned,
\* the staging vectors are not cut; failed counts the errors returned
flushChunkFails(e, f, w) ==
    LET n == Len(e.stage["TsEvent"])
    IN  << [e EXCEPT !.chunkOffsets = Append(@, Len(f)), !.failed = @ + 1],
           IF w = 0 THEN f ELSE f \o PutUint(n, 4) \o FirstBlocks(e.stage, w - 1) >>

\* the writes of flushChunk at which the file is taken to fail
FailPoints == {0, 1, Len(EncColOrder)}

\* AddRow whose flushChunk meets a write error; convertDBNToQuantDev drops
\* the error and goes on with the next record
AddRowWriteFails(r) ==
    /\ ~enc.closed
    /\ enc.totalRows < MaxRows
    /\ enc.failed < MaxWriteErrors
    /\ Len(enc.stage["TsEvent"]) + 1 >= ChunkSize
    /\ \E w \in FailPoints :
          LET e1 == [enc EXCEPT
                       !.stage = [c \in ColNames |-> Append(@[c], Staged(c, r))],
                       !.totalRows = @ + 1]
              fl == flushChunkFails(e1, file, w)
          IN  /\ enc' = fl[1]
              /\ file' = fl[2]
    /\ appended' = Append(appended, r)
    /\ UNCHANGED <<dec, tape>>
    /\ UNCHANGED <<windowVars, physVars, cursorVars, restVars>>

\* convertDBNToQuantDev calls AddRow once per record, then Close
AddRow(r) ==
    /\ ~enc.closed
    /\ enc.totalRows < MaxRows
    /\ LET e1 == [enc EXCEPT
                    !.stage = [c \in ColNames |-> Append(@[c], Staged(c, r))],
                    !.totalRows = @ + 1]
           fl == IF Len(e1.stage["TsEvent"]) >= ChunkSize
                 THEN flushChunk(e1, file) ELSE <<e1, file>>
       IN  /\ enc' = fl[1]
           /\ file' = fl[2]
    /\ appended' = Append(appended, r)
    /\ UNCHANGED <<dec, tape>>
    /\ UNCHANGED <<windowVars, physVars, cursorVars, restVars>>

Close ==
    /\ ~enc.closed
    /\ LET fl == IF Len(enc.stage["TsEvent"]) > 0
                 THEN flushChunk(enc, file) ELSE <<enc, file>>
       IN  /\ enc' = [fl[1] EXCEPT !.closed = TRUE]
           /\ file' = writeFooter(fl[1], fl[2])
    /\ UNCHANGED <<appended, dec, tape>>
    /\ UNCHANGED <<windowVars, physVars, cursorVars, restVars>>

-----------------------------------------------------------------------------
(* Decoder (loadFromFile) *)

\* a read order that takes the two best-price blocks in the other order
DecColOrder_PxSwapped ==
    <<"TsEvent", "TsRecv", "TsInDelta", "Prices", "Sizes", "Sides", "Actions",
      "Flags", "Depth", "Sequences", "AskPx", "BidPx", "BidSz", "AskSz",
      "BidCt", "AskCt", "PublisherID", "InstrumentID">>

\* the order in which loadFromFile reads the column blocks
DecColOrder ==
    <<"TsEvent", "TsRecv", "TsInDelta", "Prices", "Sizes", "Sides", "Actions",
      "Flags", "Depth", "Sequences", "BidPx", "AskPx", "BidSz", "AskSz",
      "BidCt", "AskCt", "PublisherID", "InstrumentID">>

\* a column of a container: a slice of length len over the backing array arr
\* (cap = Len(arr)); &TBBOColumns{} has every column nil
NewColumns == [Count |-> 0,
               col |-> [c \in ColNames |-> [len |-> 0, arr |-> <<>>]]]

\* TBBOColumns.Reset: Count = 0, every slice cut to [:0]
Reset(cols) ==
    [Count |-> 0, col |-> [c \in ColNames |-> [cols.col[c] EXCEPT !.len = 0]]]

\* the largest slice length make can allocate (the runtime's limit over the
\* element size, scaled) and the largest int (2^63 - 1, scaled)
MaxAllocRows == MaxRows + 1

MaxIntRows == MaxAllocRows + 1

\* make([]T, n) panics: the length is out of range
MakePanics(n) == n > MaxAllocRows

\* a resize that hands back a long enough slice as it is
resize_NoCut(kind, s, n) ==
    IF Len(s.arr) < n
    THEN [len |-> n, arr |-> [j \in 1..n |-> Zero(kind)]]
    ELSE s

\* resize(s, n): a fresh zeroed array when the capacity is short, else s[:n]
resize(kind, s, n) ==
    IF Len(s.arr) < n
    THEN [len |-> n, arr |-> [j \in 1..n |-> Zero(kind)]]
    ELSE [s EXCEPT !.len = n]

\* binary.LittleEndian.Uint32 / Uint64 of the w bytes at offset off
Uint(f, off, w) == IntVal(SubSeq(f, off + 1, off + w), FALSE)

\* a test that also refuses the chunk that exactly completes the total
ChunkOvershoots_Strict(pos, n, nRows) == pos + n >= nRows

\* the test that refuses a chunk: its rows would pass the header's total
ChunkOvershoots(pos, n, nRows) == pos + n > nRows

\* readFullInto(f, s[i0:i1]): the bytes at off copied over the elements
\* i0..i1-1 of the column; io.ReadFull copies what the file still holds
\* even when it then fails, so a short file overwrites a prefix of the window
readFullInto(f, off, kind, s, i0, i1) ==
    LET w     == Width(kind)
        avail == Len(f) - off
        old   == asBytes(kind, SubSeq(s.arr, i0 + 1, i1))
        got   == IF avail >= (i1 - i0) * w
                 THEN SubSeq(f, off + 1, off + (i1 - i0) * w)
                 ELSE SubSeq(f, off + 1, Len(f))
                      \o SubSeq(old, avail + 1, Len(old))
    IN  [ok  |-> avail >= (i1 - i0) * w,
         off |-> IF avail >= (i1 - i0) * w THEN off + (i1 - i0) * w ELSE Len(f),
         s   |-> [s EXCEPT !.arr =
                    [j \in 1..Len(s.arr) |->
                        IF i0 < j /\ j <= i1
                        THEN ValOf(kind, SubSeq(got, (j - i0 - 1) * w + 1, (j - i0) * w))
                        ELSE s.arr[j]]]]

RECURSIVE readColumns(_, _, _, _, _, _)
\* the 18 reads of one chunk, from the k-th column of the read order on
readColumns(f, off, cols, i0, i1, k) ==
    IF k > Len(DecColOrder) THEN [ok |-> TRUE, off |-> off, cols |-> cols]
    ELSE LET c == DecColOrder[k]
             r == readFullInto(f, off, Kind(c), cols.col[c], i0, i1)
             cols1 == [cols EXCEPT !.col[c] = r.s]
         IN  IF r.ok THEN readColumns(f, r.off, cols1, i0, i1, k + 1)
             ELSE [ok |-> FALSE, off |-> r.off, cols |-> cols1]

RECURSIVE readChunks(_, _, _, _, _)
\* the chunk loop of loadFromFile from row pos and file offset off on, with
\* the check and the assignment of Count that follow it
readChunks(f, nRows, pos, off, cols) ==
    IF ~(pos < nRows)
    THEN IF pos # nRows
         THEN [status |-> "count_mismatch", nRows |-> nRows, pos |-> pos,
               off |-> off, cols |-> cols]
         ELSE [status |-> "ok", nRows |-> nRows, pos |-> pos, off |-> off,
               cols |-> [cols EXCEPT !.Count = nRows]]
    ELSE IF Len(f) - off < 4
    THEN [status |-> "chunk_len_read", nRows |-> nRows, pos |-> pos,
          off |-> Len(f), cols |-> cols]
    ELSE LET n == Uint(f, off, 4)
         IN  IF n = 0 THEN readChunks(f, nRows, pos, off + 4, cols)
             ELSE IF ChunkOvershoots(pos, n, nRows)
             THEN [status |-> "corrupt_chunk", nRows |-> nRows, pos |-> pos,
                   off |-> off + 4, cols |-> cols]
             ELSE LET r == readColumns(f, off + 4, cols, pos, pos + n, 1)
                  IN  IF r.ok
                      THEN readChunks(f, nRows, pos + n, r.off, r.cols)
                      ELSE [status |-> "short_read", nRows |-> nRows,
                            pos |-> pos, off |-> r.off, cols |-> r.cols]

\* a loadFromFile that resets the container before it looks at the magic
loadFromFile_ResetFirst(f, cols) ==
    IF Len(f) < HeaderSize
    THEN [status |-> "bad_header", nRows |-> 0, pos |-> 0, off |-> Len(f),
          cols |-> cols]
    ELSE IF SubSeq(f, 1, 4) # MagicGNC
    THEN [status |-> "bad_magic", nRows |-> 0, pos |-> 0, off |-> HeaderSize,
          cols |-> Reset(cols)]
    ELSE LET nRows == Uint(f, 8, 8)
             c0    == Reset(cols)
             c1    == [c0 EXCEPT !.col =
                         [c \in ColNames |-> resize(Kind(c), c0.col[c], nRows)]]
         IN  readChunks(f, nRows, 0, HeaderSize, c1)

\* loadFromFile(path, cols) on a file holding the bytes f: the error kind (or
\* "ok", or "panic" when make fails in resize, which ends the process), the
\* locals nRows and pos, the read offset reached, the container
loadFromFile(f, cols) ==
    IF Len(f) < HeaderSize
    THEN [status |-> "bad_header", nRows |-> 0, pos |-> 0, off |-> Len(f),
          cols |-> cols]
    ELSE IF SubSeq(f, 1, 4) # MagicGNC
    THEN [status |-> "bad_magic", nRows |-> 0, pos |-> 0, off |-> HeaderSize,
          cols |-> cols]
    ELSE IF Uint(f, 8, 8) > MaxIntRows
    THEN [status |-> "too_large", nRows |-> 0, pos |-> 0, off |-> HeaderSize,
          cols |-> cols]
    ELSE IF MakePanics(Uint(f, 8, 8))
    THEN [status |-> "panic", nRows |-> Uint(f, 8, 8), pos |-> 0,
          off |-> HeaderSize, cols |-> Reset(cols)]
    ELSE LET nRows == Uint(f, 8, 8)
             c0    == Reset(cols)
             c1    == [c0 EXCEPT !.col =
                         [c \in ColNames |-> resize(Kind(c), c0.col[c], nRows)]]
         IN  readChunks(f, nRows, 0, HeaderSize, c1)

\* the file as the decoder finds it: the encoder's, or one whose header
\* carries another total_rows (a damaged or foreign file)
WithTotalRows(f, t) == SubSeq(f, 1, 8) \o PutUint(t, 8) \o SubSeq(f, 17, Len(f))

NoLoad == [status |-> "none", nRows |-> 0, pos |-> 0, off |-> 0,
           cols |-> NewColumns]

\* LoadQuantDevShared on a cache miss: loadFromFile into a fresh container
Load(f) ==
    /\ dec' = loadFromFile(f, NewColumns)
    /\ tape' = f
    /\ UNCHANGED <<enc, file, appended>>
    /\ UNCHANGED <<windowVars, physVars, cursorVars, restVars>>

LoadEncoded == Load(file)

LoadDamaged == \E t \in 0..(MaxRows + 1) : t # Uint(file, 8, 8) /\ Load(WithTotalRows(file, t))

-----------------------------------------------------------------------------
(* LoadQuantDev and the container pool (part_003, common.go TBBOPool) *)

MaxLoads      == 2      \* at most this many LoadQuantDev calls
MaxContainers == 1      \* at most this many containers made by TBBOPool.New

\* magics of other formats: an older version, a vendor file
ForeignMagics == { <<71, 78, 67, 51>>, <<68, 66, 78, 1>> }

\* the file with its first four bytes replaced
WithMagic(f, m) == m \o SubSeq(f, 5, Len(f))

\* a sequence without its k-th element
Without(s, k) == SubSeq(s, 1, k - 1) \o SubSeq(s, k + 1, Len(s))

NoCallYet == [n |-> 0, magic |-> <<>>, status |-> "none", off |-> 0,
              got |-> NewColumns, left |-> NewColumns, out |-> "nil",
              bytes |-> <<>>]

LoaderStart ==
    /\ pool = <<>>
    /\ held = <<>>
    /\ lq = NoCallYet

\* LoadQuantDev(path) on a file holding the bytes f, with cols the container
\* TBBOPool.Get hands out; on an error the container goes back to the pool
\* and the caller gets nil
LoadQuantDevWith(f, cols, rest) ==
    LET r == loadFromFile(f, cols)
    IN  /\ lq' = [n |-> lq.n + 1, magic |-> SubSeq(f, 1, 4), status |-> r.status,
                  off |-> r.off, got |-> cols, left |-> r.cols,
                  out |-> IF r.status = "ok" THEN "cols" ELSE "nil",
                  bytes |-> f]
        /\ IF r.status = "ok"
           THEN /\ held' = Append(held, r.cols)
                /\ pool' = rest
           ELSE /\ pool' = Append(rest, r.cols)
                /\ UNCHANGED held

\* TBBOPool.Get: a pooled container, or a new one (the pool is empty or has
\* dropped its items)
LoadQuantDev(f) ==
    /\ lq.n < MaxLoads
    /\ \/ \E k \in 1..Len(pool) : LoadQuantDevWith(f, pool[k], Without(pool, k))
       \/ /\ Len(pool) + Len(held) < MaxContainers
          /\ LoadQuantDevWith(f, NewColumns, pool)
    /\ UNCHANGED <<codecVars, windowVars, physVars, cursorVars, chunkVars, portfolioVars, driverVars>>

LoadQuantDevEncoded == LoadQuantDev(file)

LoadQuantDevForeign == \E m \in ForeignMagics : LoadQuantDev(WithMagic(file, m))

\* the caller's deferred TBBOPool.Put(cols)
PutCols ==
    /\ held # <<>>
    /\ pool' = Append(pool, held[1])
    /\ held' = Tail(held)
    /\ UNCHANGED lq
    /\ UNCHANGED <<codecVars, windowVars, physVars, cursorVars, chunkVars, portfolioVars, driverVars>>

-----------------------------------------------------------------------------
(* The encoder under another chunk size (encoder.go ChunkSize) *)

RECURSIVE EncodeRows(_, _, _, _)
\* AddRow for each record of rows in turn, flushing at cs staged rows
EncodeRows(rows, cs, e, f) ==
    IF rows = <<>> THEN <<e, f>>
    ELSE LET e1 == [e EXCEPT
                      !.stage = [c \in ColNames |-> Append(@[c], Staged(c, Head(rows)))],
                      !.totalRows = @ + 1]
             fl == IF Len(e1.stage["TsEvent"]) >= cs
                   THEN flushChunk(e1, f) ELSE <<e1, f>>
         IN  EncodeRows(Tail(rows), cs, fl[1], fl[2])

\* the file NewEncoder, the AddRow calls and Close leave for a chunk size cs
EncodeFile(rows, cs) ==
    LET a  == EncodeRows(rows, cs, NewEncoder, ZeroBytes(HeaderSize))
        fl == IF Len(a[1].stage["TsEvent"]) > 0
              THEN flushChunk(a[1], a[2]) ELSE a
    IN  writeFooter(fl[1], fl[2])

\* every record stream of up to MaxRows rows
Streams == UNION { [1..n -> Records] : n \in 0..MaxRows }

ChunkStart ==
    /\ stream = <<>>
    /\ byChunk = <<>>

\* the stream encoded with a chunk size cs not tried yet and loaded into a
\* fresh container
EncodeDecode(cs) ==
    /\ cs \notin DOMAIN byChunk
    /\ byChunk' = [c \in DOMAIN byChunk \cup {cs} |->
                      IF c = cs THEN loadFromFile(EncodeFile(stream, cs), NewColumns)
                      ELSE byChunk[c]]
    /\ UNCHANGED stream
    /\ UNCHANGED <<codecVars, windowVars, physVars, cursorVars, loaderVars, portfolioVars, driverVars>>

\* tapes of zero to three rows, and the files made of them: as encoded, or
\* with another total_rows in the header
ReuseStreams ==
    LET a == CHOOSE r \in Records : r.pubID = 1
        b == CHOOSE r \in Records : r.pubID # 1
    IN  { <<>>, <<a>>, <<b>>, <<a, b>>, <<b, a>>, <<a, b, a>> }

ReuseTapes ==
    { WithTotalRows(EncodeFile(rows, ChunkSize), t) :
          rows \in ReuseStreams, t \in 0..3 }

\* LoadQuantDev on one of these files
LoadQuantDevTape == \E f \in ReuseTapes : LoadQuantDev(f)

-----------------------------------------------------------------------------
(* Statistics accumulators and their merge (metrics.go).  A float64 is here *)
(* [k, v]: a whole number v (k = "num"), NaN, +Inf or -Inf (v = 0).         *)

maxReturnsPerStat == 1  \* cap of AdvancedStats.Returns (100000, scaled)
MaxObs            == 3  \* at most this many observations in one local report

Num(v) == [k |-> "num", v |-> v]

IsNaN(x) == x.k = "nan"

FNeg(x) ==
    IF x.k = "num" THEN Num(0 - x.v)
    ELSE IF x.k = "pinf" THEN NInf ELSE IF x.k = "ninf" THEN PInf ELSE NaN

FAdd(x, y) ==
    IF IsNaN(x) \/ IsNaN(y) THEN NaN
    ELSE IF x.k = "num" /\ y.k = "num" THEN Num(x.v + y.v)
    ELSE IF x.k = "num" THEN y
    ELSE IF y.k = "num" THEN x
    ELSE IF x.k = y.k THEN x ELSE NaN

FSub(x, y) == FAdd(x, FNeg(y))

\* the sign of a value that is not NaN: -1, 0, 1
FSign(x) ==
    IF x.k = "pinf" THEN 1 ELSE IF x.k = "ninf" THEN -1
    ELSE IF x.v > 0 THEN 1 ELSE IF x.v < 0 THEN -1 ELSE 0

FMul(x, y) ==
    IF IsNaN(x) \/ IsNaN(y) THEN NaN
    ELSE IF x.k = "num" /\ y.k = "num" THEN Num(x.v * y.v)
    ELSE IF FSign(x) * FSign(y) = 0 THEN NaN
    ELSE IF FSign(x) * FSign(y) > 0 THEN PInf ELSE NInf

\* x > y; false when either is NaN
FGt(x, y) ==
    /\ ~IsNaN(x) /\ ~IsNaN(y)
    /\ IF x.k = "num" /\ y.k = "num" THEN x.v > y.v
       ELSE IF x.k = "pinf" THEN y.k # "pinf"
       ELSE IF x.k = "ninf" THEN FALSE
       ELSE y.k = "ninf"

\* x >= y; false when either is NaN
FGe(x, y) == ~IsNaN(x) /\ ~IsNaN(y) /\ (x = y \/ FGt(x, y))

\* ICStats{} and AdvancedStats{}
NewICStats == [Sig |-> <<>>, Ret |-> <<>>]

NewAdvancedStats ==
    [Count |-> 0, Wins |-> 0, TotalPnL |-> Num(0), TotalFees |-> Num(0),
     MaxDD |-> Num(0), PeakPnL |-> Num(0),
     PnL_Markout |-> Num(0), PnL_Real |-> Num(0),
     SumPnL |-> Num(0), SumPnL2 |-> Num(0), SumPnL3 |-> Num(0), SumPnL4 |-> Num(0),
     Returns |-> <<>>]

\* an Observe that appends whatever the list holds
ICStatsObserve_NoCap(s, sig, retv) ==
    IF IsNaN(sig) \/ IsNaN(retv) THEN s
    ELSE [Sig |-> Append(s.Sig, sig), Ret |-> Append(s.Ret, retv)]

\* ICStats.Observe
ICStatsObserve(s, sig, retv) ==
    IF IsNaN(sig) \/ IsNaN(retv) THEN s
    ELSE IF Len(s.Sig) < maxICSamples
    THEN [Sig |-> Append(s.Sig, sig), Ret |-> Append(s.Ret, retv)]
    ELSE s

\* AdvancedStats.Update
AdvancedStatsUpdate(s, markout, retReal, fee) ==
    LET net   == FSub(retReal, fee)
        total == FAdd(s.TotalPnL, net)
        peak  == IF FGt(total, s.PeakPnL) THEN total ELSE s.PeakPnL
        dd    == FSub(peak, total)
    IN  [Count |-> s.Count + 1,
         Wins |-> IF FGt(net, Num(0)) THEN s.Wins + 1 ELSE s.Wins,
         TotalPnL |-> total,
         TotalFees |-> FAdd(s.TotalFees, fee),
         PnL_Markout |-> FAdd(s.PnL_Markout, markout),
         PnL_Real |-> FAdd(s.PnL_Real, net),
         PeakPnL |-> peak,
         MaxDD |-> IF FGt(dd, s.MaxDD) THEN dd ELSE s.MaxDD,
         SumPnL  |-> FAdd(s.SumPnL, net),
         SumPnL2 |-> FAdd(s.SumPnL2, FMul(net, net)),
         SumPnL3 |-> FAdd(s.SumPnL3, FMul(FMul(net, net), net)),
         SumPnL4 |-> FAdd(s.SumPnL4, FMul(FMul(FMul(net, net), net), net)),
         Returns |-> IF Len(s.Returns) < maxReturnsPerStat
                     THEN Append(s.Returns, net) ELSE s.Returns]

\* a merge that cuts the signals only
MergeICStats_CutSig(dst, src) ==
    LET sigs == dst.Sig \o src.Sig
        rets == dst.Ret \o src.Ret
    IN  IF Len(sigs) > maxICSamples
        THEN [Sig |-> SubSeq(sigs, 1, maxICSamples), Ret |-> rets]
        ELSE [Sig |-> sigs, Ret |-> rets]

\* a merge that keeps the newest samples when it cuts
MergeICStats_KeepTail(dst, src) ==
    LET sigs == dst.Sig \o src.Sig
        rets == dst.Ret \o src.Ret
        n    == Len(sigs)
    IN  IF n > maxICSamples
        THEN [Sig |-> SubSeq(sigs, n - maxICSamples + 1, n),
              Ret |-> SubSeq(rets, n - maxICSamples + 1, n)]
        ELSE [Sig |-> sigs, Ret |-> rets]

\* MergeLocal on one ICStats cell: append, then cut to the cap
MergeICStats(dst, src) ==
    LET sigs == dst.Sig \o src.Sig
        rets == dst.Ret \o src.Ret
    IN  IF Len(sigs) > maxICSamples
        THEN [Sig |-> SubSeq(sigs, 1, maxICSamples), Ret |-> SubSeq(rets, 1, maxICSamples)]
        ELSE [Sig |-> sigs, Ret |-> rets]

\* a merge that counts only the returns it keeps
MergeAdvancedStats_CountRetained(d, s) ==
    LET space0 == maxReturnsPerStat - Len(d.Returns)
        space  == IF Len(s.Returns) < space0 THEN Len(s.Returns) ELSE space0
        kept   == IF space0 > 0 THEN space ELSE 0
    IN  [Count |-> d.Count + kept,
         Wins |-> d.Wins + s.Wins,
         TotalPnL |-> FAdd(d.TotalPnL, s.TotalPnL),
         TotalFees |-> FAdd(d.TotalFees, s.TotalFees),
         PnL_Markout |-> FAdd(d.PnL_Markout, s.PnL_Markout),
         PnL_Real |-> FAdd(d.PnL_Real, s.PnL_Real),
         SumPnL  |-> FAdd(d.SumPnL, s.SumPnL),
         SumPnL2 |-> FAdd(d.SumPnL2, s.SumPnL2),
         SumPnL3 |-> FAdd(d.SumPnL3, s.SumPnL3),
         SumPnL4 |-> FAdd(d.SumPnL4, s.SumPnL4),
         Returns |-> IF space0 > 0 THEN d.Returns \o SubSeq(s.Returns, 1, space)
                     ELSE d.Returns,
         MaxDD |-> IF FGt(s.MaxDD, d.MaxDD) THEN s.MaxDD ELSE d.MaxDD,
         PeakPnL |-> IF FGt(s.PeakPnL, d.PeakPnL) THEN s.PeakPnL ELSE d.PeakPnL]

\* MergeLocal on one AdvancedStats cell
MergeAdvancedStats(d, s) ==
    LET space0 == maxReturnsPerStat - Len(d.Returns)
        space  == IF Len(s.Returns) < space0 THEN Len(s.Returns) ELSE space0
    IN  [Count |-> d.Count + s.Count,
         Wins |-> d.Wins + s.Wins,
         TotalPnL |-> FAdd(d.TotalPnL, s.TotalPnL),
         TotalFees |-> FAdd(d.TotalFees, s.TotalFees),
         PnL_Markout |-> FAdd(d.PnL_Markout, s.PnL_Markout),
         PnL_Real |-> FAdd(d.PnL_Real, s.PnL_Real),
         SumPnL  |-> FAdd(d.SumPnL, s.SumPnL),
         SumPnL2 |-> FAdd(d.SumPnL2, s.SumPnL2),
         SumPnL3 |-> FAdd(d.SumPnL3, s.SumPnL3),
         SumPnL4 |-> FAdd(d.SumPnL4, s.SumPnL4),
         Returns |-> IF space0 > 0 THEN d.Returns \o SubSeq(s.Returns, 1, space)
                     ELSE d.Returns,
         MaxDD |-> IF FGt(s.MaxDD, d.MaxDD) THEN s.MaxDD ELSE d.MaxDD,
         PeakPnL |-> IF FGt(s.PeakPnL, d.PeakPnL) THEN s.PeakPnL ELSE d.PeakPnL]

\* NewSymbolReport: one (signal, horizon) cell of each map
NewSymbolReport == [Signals |-> NewICStats, Trades |-> NewAdvancedStats]

\* the body of MergeLocal under the per-symbol mutex
MergeReports(global, src) ==
    [Signals |-> MergeICStats(global.Signals, src.Signals),
     Trades  |-> MergeAdvancedStats(global.Trades, src.Trades)]

Workers == {"A", "B"}

Symbols == {"ES", "NQ"}

\* (signal, future log return) pairs met by RunStrategy; log(futMid / 0) is +Inf
Observations ==
    { <<Num(1), Num(2)>>, <<Num(-1), Num(1)>>, <<NaN, Num(1)>>, <<Num(1), PInf>> }

\* runTest: local := NewSymbolReport(sym); nets lists the Update calls made,
\* obs the (signal, return) pairs Observe was given and did not reject as NaN
NewLocal(sym) ==
    [sym |-> sym, rep |-> NewSymbolReport, n |-> 0, nets |-> <<>>, obs |-> <<>>]

NoAssets == [s \in {} |-> NewSymbolReport]

NoLocks == [s \in {} |-> "free"]

\* no metric computed yet
NoMetric == [fn |-> "none"]

PortfolioStart ==
    /\ metric = NoMetric
    /\ locals = [w \in Workers |-> NewLocal("ES")]
    /\ assets = NoAssets
    /\ mergedOrder = <<>>
    /\ mu = "free"
    /\ symLock = NoLocks
    /\ wpc = [w \in Workers |-> "run"]

\* the innermost loop body of RunStrategy for one signal and one horizon
RecordInto(l, sig, retLog) ==
    LET ic       == ICStatsObserve(l.rep.Signals, sig, retLog)
        seen     == IF IsNaN(sig) \/ IsNaN(retLog) THEN l.obs
                    ELSE Append(l.obs, <<sig, retLog>>)
        skip     == (sig.k = "num" /\ sig.v = 0) \/ IsNaN(sig)
        dir      == IF FGt(Num(0), sig) THEN Num(-1) ELSE Num(1)
        stratRet == FMul(dir, retLog)
    IN  IF skip
        THEN [l EXCEPT !.rep.Signals = ic, !.n = l.n + 1, !.obs = seen]
        ELSE [l EXCEPT !.rep.Signals = ic, !.n = l.n + 1, !.obs = seen,
                       !.rep.Trades = AdvancedStatsUpdate(l.rep.Trades, stratRet, stratRet, Num(0)),
                       !.nets = Append(l.nets, stratRet)]

RunStrategyRecord(w, sig, retLog) ==
    /\ wpc[w] = "run"
    /\ locals[w].n < MaxObs
    /\ locals' = [locals EXCEPT ![w] = RecordInto(locals[w], sig, retLog)]
    /\ UNCHANGED <<assets, mergedOrder, mu, symLock, wpc>>
    /\ UNCHANGED <<codecVars, windowVars, physVars, cursorVars, loaderVars, chunkVars, driverVars, metric>>

\* the map after p.Assets[sym] was looked up and, when missing, inserted
WithSymbol(a, sym) ==
    [s \in DOMAIN a \cup {sym} |-> IF s \in DOMAIN a THEN a[s] ELSE NewSymbolReport]

WithLock(l, sym) ==
    [s \in DOMAIN l \cup {sym} |-> IF s \in DOMAIN l THEN l[s] ELSE "free"]

\* p.Mu.Lock()
AcquireMu(w) ==
    /\ wpc[w] = "run"
    /\ mu = "free"
    /\ mu' = w
    /\ wpc' = [wpc EXCEPT ![w] = "lookup"]
    /\ UNCHANGED <<locals, assets, mergedOrder, symLock>>
    /\ UNCHANGED <<codecVars, windowVars, physVars, cursorVars, loaderVars, chunkVars, driverVars, metric>>

\* a lookup that keeps p.Mu locked
LookupRelease_KeepMu(w) ==
    /\ wpc[w] = "lookup"
    /\ assets' = WithSymbol(assets, locals[w].sym)
    /\ symLock' = WithLock(symLock, locals[w].sym)
    /\ mu' = mu
    /\ wpc' = [wpc EXCEPT ![w] = "wantSym"]
    /\ UNCHANGED <<locals, mergedOrder>>
    /\ UNCHANGED <<codecVars, windowVars, physVars, cursorVars, loaderVars, chunkVars, driverVars, metric>>

\* a lookup that installs a new report whether or not one is there
LookupRelease_Replace(w) ==
    /\ wpc[w] = "lookup"
    /\ assets' = [s \in DOMAIN assets \cup {locals[w].sym} |->
                      IF s = locals[w].sym THEN NewSymbolReport ELSE assets[s]]
    /\ symLock' = WithLock(symLock, locals[w].sym)
    /\ mu' = "free"
    /\ wpc' = [wpc EXCEPT ![w] = "wantSym"]
    /\ UNCHANGED <<locals, mergedOrder>>
    /\ UNCHANGED <<codecVars, windowVars, physVars, cursorVars, loaderVars, chunkVars, driverVars, metric>>

\* global, ok := p.Assets[sym]; if !ok { insert }; p.Mu.Unlock()
LookupRelease(w) ==
    /\ wpc[w] = "lookup"
    /\ assets' = WithSymbol(assets, locals[w].sym)
    /\ symLock' = WithLock(symLock, locals[w].sym)
    /\ mu' = "free"
    /\ wpc' = [wpc EXCEPT ![w] = "wantSym"]
    /\ UNCHANGED <<locals, mergedOrder>>
    /\ UNCHANGED <<codecVars, windowVars, physVars, cursorVars, loaderVars, chunkVars, driverVars, metric>>

\* global.Lock.Lock()
AcquireSym(w) ==
    /\ wpc[w] = "wantSym"
    /\ symLock[locals[w].sym] = "free"
    /\ symLock' = [symLock EXCEPT ![locals[w].sym] = w]
    /\ wpc' = [wpc EXCEPT ![w] = "merge"]
    /\ UNCHANGED <<locals, assets, mergedOrder, mu>>
    /\ UNCHANGED <<codecVars, windowVars, physVars, cursorVars, loaderVars, chunkVars, driverVars, metric>>

\* the two merge loops
MergeData(w) ==
    /\ wpc[w] = "merge"
    /\ assets' = [assets EXCEPT ![locals[w].sym] = MergeReports(@, locals[w].rep)]
    /\ mergedOrder' = Append(mergedOrder, w)
    /\ wpc' = [wpc EXCEPT ![w] = "unlock"]
    /\ UNCHANGED <<locals, mu, symLock>>
    /\ UNCHANGED <<codecVars, windowVars, physVars, cursorVars, loaderVars, chunkVars, driverVars, metric>>

\* defer global.Lock.Unlock()
ReleaseSym(w) ==
    /\ wpc[w] = "unlock"
    /\ symLock' = [symLock EXCEPT ![locals[w].sym] = "free"]
    /\ wpc' = [wpc EXCEPT ![w] = "done"]
    /\ UNCHANGED <<locals, assets, mergedOrder, mu>>
    /\ UNCHANGED <<codecVars, windowVars, physVars, cursorVars, loaderVars, chunkVars, driverVars, metric>>

\* one call of MergeLocal run from start to end with no other worker between
MergeLocal(w) ==
    /\ wpc[w] = "run"
    /\ mu = "free"
    /\ locals[w].sym \in DOMAIN symLock => symLock[locals[w].sym] = "free"
    /\ assets' = [WithSymbol(assets, locals[w].sym) EXCEPT
                     ![locals[w].sym] = MergeReports(@, locals[w].rep)]
    /\ symLock' = WithLock(symLock, locals[w].sym)
    /\ mergedOrder' = Append(mergedOrder, w)
    /\ wpc' = [wpc EXCEPT ![w] = "done"]
    /\ UNCHANGED <<locals, mu>>
    /\ UNCHANGED <<codecVars, windowVars, physVars, cursorVars, loaderVars, chunkVars, driverVars, metric>>

-----------------------------------------------------------------------------
(* Metrics computed from the retained samples of a report (metrics.go).     *)
(* Signals and returns are whole numbers or infinities here; Observe keeps  *)
(* NaN out of the lists.                                                    *)

MaxSamples == 3     \* at most this many retained samples in a report handed to a metric

\* sort.Slice(pairs, func(i, j) { return pairs[i].v < pairs[j].v }): the
\* order of the indices after the sort.  The sort is not stable, so any
\* order in which no value is followed by a smaller one can come out.
SortSlice(v) ==
    { p \in [1..Len(v) -> 1..Len(v)] :
        /\ \A i, j \in 1..Len(v) : i # j => p[i] # p[j]
        /\ \A k \in 1..(Len(v) - 1) : ~FGt(v[p[k]], v[p[k + 1]]) }

\* for rank, p := range pairs { r[p.idx] = float64(rank + 1) }
RanksOf(p) == [i \in 1..Len(p) |-> CHOOSE k \in 1..Len(p) : p[k] = i]

\* x[1]*y[1] + ... + x[k]*y[k]
RECURSIVE Dot(_, _, _)
Dot(x, y, k) == IF k = 0 THEN 0 ELSE x[k] * y[k] + Dot(x, y, k - 1)

\* the value 0 and the value cov / sqrt(varX * varY)
ZeroCorr == [cov |-> QZero, varX |-> QInt(1), varY |-> QInt(1)]

\* pearsonFromSamples over whole numbers.  The variances are multiples of
\* 1/n^2, so one is <= 1e-12 exactly when it is <= 0.
pearsonFromSamples(x, y) ==
    LET n     == Len(x)
        ones  == [i \in 1..n |-> 1]
        meanX == QNorm(Dot(x, ones, n), n)
        meanY == QNorm(Dot(y, ones, n), n)
        cov   == QSub(QNorm(Dot(x, y, n), n), QMul(meanX, meanY))
        varX  == QSub(QNorm(Dot(x, x, n), n), QMul(meanX, meanX))
        varY  == QSub(QNorm(Dot(y, y, n), n), QMul(meanY, meanY))
    IN  IF n < 2 \/ Len(y) # n THEN ZeroCorr
        ELSE IF varX.n <= 0 \/ varY.n <= 0 THEN ZeroCorr
        ELSE [cov |-> cov, varX |-> varX, varY |-> varY]

\* ICStats.RankIC when the two sorts left the orders ps and pr
RankICOf(s, ps, pr) ==
    IF Len(s.Sig) < 2 \/ Len(s.Ret) # Len(s.Sig)
    THEN [fn |-> "RankIC", of |-> s, ranked |-> FALSE,
          rSig |-> <<>>, rRet |-> <<>>, value |-> ZeroCorr]
    ELSE [fn |-> "RankIC", of |-> s, ranked |-> TRUE,
          rSig |-> RanksOf(ps), rRet |-> RanksOf(pr),
          value |-> pearsonFromSamples(RanksOf(ps), RanksOf(pr))]

\* rankIC := ss.RankIC() of the report of a symbol
RankIC ==
    /\ \E sym \in DOMAIN assets :
         \E ps \in SortSlice(assets[sym].Signals.Sig), pr \in SortSlice(assets[sym].Signals.Ret) :
            metric' = RankICOf(assets[sym].Signals, ps, pr)
    /\ UNCHANGED <<locals, assets, mergedOrder, mu, symLock, wpc>>
    /\ UNCHANGED <<codecVars, windowVars, physVars, cursorVars, loaderVars, chunkVars, driverVars>>

\* DeltaLogLoss: 0 = Down, 1 = Flat, 2 = Up; a return is a whole number, so
\* it is above eps = 1e-9 exactly when it is above 0
Label(r) == IF FGt(r, Num(0)) THEN 2 ELSE IF FGt(Num(0), r) THEN 0 ELSE 1

LogLossBins == 10   \* const K = 10

\* binIndex(v, minV, maxV, bins)
binIndex(v, minV, maxV, bins) ==
    IF v <= minV THEN 0
    ELSE IF v >= maxV THEN bins - 1
    ELSE LET idx == ((v - minV) * bins) \div (maxV - minV)
         IN  IF idx < 0 THEN 0 ELSE IF idx >= bins THEN bins - 1 ELSE idx

\* a loss -(log p[1] + ... + log p[n]) / n is kept as the probabilities p;
\* it is 0 exactly when every one of them is 1
ZeroLoss == <<>>

\* ICStats.DeltaLogLoss: (baseline, model, delta).  The floor 1e-12 of
\* baseProb is given to classes without a sample only, and is read for empty
\* bins only, so no loss term uses it.
DeltaLogLossOf(s) ==
    LET n        == Len(s.Ret)
        labels   == [i \in 1..n |-> Label(s.Ret[i])]
        counts   == [c \in 0..2 |-> Cardinality({ i \in 1..n : labels[i] = c })]
        baseLoss == [i \in 1..n |-> QNorm(counts[labels[i]], n)]
        sigs     == { s.Sig[i].v : i \in 1..n }
        minS     == CHOOSE v \in sigs : \A u \in sigs : v <= u
        maxS     == CHOOSE v \in sigs : \A u \in sigs : v >= u
        bin      == [i \in 1..n |-> binIndex(s.Sig[i].v, minS, maxS, LogLossBins)]
        binCount == [i \in 1..n |->
                        Cardinality({ j \in 1..n : bin[j] = bin[i] /\ labels[j] = labels[i] })]
        binTotal == [i \in 1..n |-> Cardinality({ j \in 1..n : bin[j] = bin[i] })]
        modelLoss == [i \in 1..n |-> QNorm(binCount[i] + 1, binTotal[i] + 3)]
    IN  IF n = 0 \/ Len(s.Sig) # n
        THEN [fn |-> "DeltaLogLoss", of |-> s,
              baseline |-> ZeroLoss, model |-> ZeroLoss, delta |-> "zero"]
        ELSE IF maxS = minS
        THEN [fn |-> "DeltaLogLoss", of |-> s,
              baseline |-> baseLoss, model |-> baseLoss, delta |-> "zero"]
        ELSE [fn |-> "DeltaLogLoss", of |-> s,
              baseline |-> baseLoss, model |-> modelLoss, delta |-> "baseline - model"]

\* baseLL, modelLL, dLL := ss.DeltaLogLoss() of the report of a symbol
DeltaLogLoss ==
    /\ \E sym \in DOMAIN assets : metric' = DeltaLogLossOf(assets[sym].Signals)
    /\ UNCHANGED <<locals, assets, mergedOrder, mu, symLock, wpc>>
    /\ UNCHANGED <<codecVars, windowVars, physVars, cursorVars, loaderVars, chunkVars, driverVars>>

\* the retained samples a report can hold: up to MaxSamples pairs of a
\* signal and a return
SampleLists ==
    UNION { [1..n -> {Num(-1), Num(1), Num(2)} \X {Num(-1), Num(0), Num(1)}] :
              n \in 0..MaxSamples }

ICStatsOf(l) == [Sig |-> [j \in 1..Len(l) |-> l[j][1]], Ret |-> [j \in 1..Len(l) |-> l[j][2]]]

-----------------------------------------------------------------------------
(* The file as its header and footer describe it (writeFooter's layout) *)

HeaderRows(f) == Uint(f, 8, 8)

FooterPos(f) == Uint(f, 24, 8)

ChunkCount(f) == Uint(f, FooterPos(f), 4)

ChunkOffset(f, j) == Uint(f, FooterPos(f) + 4 + 8 * (j - 1), 8)

ChunkLen(f, j) == Uint(f, ChunkOffset(f, j), 4)

RECURSIVE RowsBefore(_, _)
\* the rows held by the chunks 1..j-1
RowsBefore(f, j) == IF j <= 1 THEN 0 ELSE RowsBefore(f, j - 1) + ChunkLen(f, j - 1)

BodyRows(f) == RowsBefore(f, ChunkCount(f) + 1)

\* loadFromFile ran on a file carrying the magic
Decoded == dec.status \notin {"none", "bad_header", "bad_magic"}

-----------------------------------------------------------------------------
(* The study drivers (part_000 runTest, part_001 runTest): one goroutine    *)
(* per tape file behind a semaphore, each taking its column container from  *)
(* TBBOPool through LoadQuantDev.  A container is known by its number.      *)

MaxJobs         == 3    \* at most this many tape files in one run
TestMaxParallel == 2    \* capacity of the semaphore channel (4 / 24, scaled)

\* the two drivers: the backtest of part_000 and the study of part_001
Drivers == {"test", "study"}

TapeRecord == CHOOSE r \in Records : r.pubID = 1

\* a sound tape, long enough for RunStrategy
GoodFile == EncodeFile(<<TapeRecord, TapeRecord>>, ChunkSize)

\* the tape files a run may find: a sound one, one of another format, one
\* whose header carries a total_rows beyond what can be allocated
FileKinds == {"good", "foreign", "huge"}

FileOf(k) ==
    CASE k = "good" -> GoodFile
      [] k = "foreign" -> WithMagic(GoodFile, <<71, 78, 67, 51>>)
      [] k = "huge" -> WithTotalRows(GoodFile, MaxAllocRows + 1)

\* what loadFromFile makes of each file
Outcome == [k \in FileKinds |-> loadFromFile(FileOf(k), NewColumns)]

JobLists == UNION { [1..n -> FileKinds] : n \in 0..MaxJobs }

NoPool == [free |-> {}, owner |-> <<>>, gets |-> <<>>, puts |-> <<>>]

\* a driver of kind d about to start the jobs js
DriverAt(d, js) ==
    /\ jobs = js
    /\ drv = [mode |-> d, pc |-> "spawn", next |-> 1, wg |-> 0]
    /\ sem = 0
    /\ wk = [j \in 1..Len(js) |-> [pc |-> "idle", cols |-> 0]]
    /\ tbbo = NoPool
    /\ ranLog = [j \in 1..Len(js) |-> 0]
    /\ master = [j \in 1..Len(js) |-> 0]
    /\ stale = FALSE

DriverStart == DriverAt("test", <<>>)

\* a TBBOPool.Get that leaves the container in the pool
PoolGet_Shared(t, c, j) ==
    IF c <= Len(t.owner)
    THEN [t EXCEPT !.owner[c] = j, !.gets[c] = @ + 1]
    ELSE [free |-> t.free, owner |-> Append(t.owner, j),
          gets |-> Append(t.gets, 1), puts |-> Append(t.puts, 0)]

\* TBBOPool.Get by goroutine j: container c leaves the pool, or is made by
\* New when c is the next unused number
PoolGet(t, c, j) ==
    IF c <= Len(t.owner)
    THEN [t EXCEPT !.free = @ \ {c}, !.owner[c] = j, !.gets[c] = @ + 1]
    ELSE [free |-> t.free, owner |-> Append(t.owner, j),
          gets |-> Append(t.gets, 1), puts |-> Append(t.puts, 0)]

\* TBBOPool.Put(cols)
PoolPut(t, c) ==
    [t EXCEPT !.free = @ \cup {c}, !.owner[c] = 0, !.puts[c] = @ + 1]

Running == drv.pc \notin {"returned", "crashed"}

At(j, p) == Running /\ j \in DOMAIN wk /\ wk[j].pc = p

\* goroutine j reads or writes its container
Touch(j) == stale' = (stale \/ tbbo.owner[wk[j].cols] # j)

\* one turn of the driver's loop: wg.Add(1); sem <- struct{}{}; go func
Spawn ==
    /\ drv.pc = "spawn"
    /\ drv.next <= Len(jobs)
    /\ sem < TestMaxParallel
    /\ drv' = [drv EXCEPT !.next = @ + 1, !.wg = @ + 1]
    /\ sem' = sem + 1
    /\ wk' = [wk EXCEPT ![drv.next].pc = "start"]
    /\ UNCHANGED <<jobs, tbbo, ranLog, master, stale>>
    /\ UNCHANGED <<codecVars, windowVars, physVars, cursorVars, loaderVars, chunkVars, portfolioVars>>

\* wg.Wait() after the loop, and the report
WaitAndReturn ==
    /\ drv.pc = "spawn"
    /\ drv.next > Len(jobs)
    /\ drv.wg = 0
    /\ drv' = [drv EXCEPT !.pc = "returned"]
    /\ UNCHANGED <<jobs, sem, wk, tbbo, ranLog, master, stale>>
    /\ UNCHANGED <<codecVars, windowVars, physVars, cursorVars, loaderVars, chunkVars, portfolioVars>>

\* LoadQuantDev, first line: cols := TBBOPool.Get()
GetCols(j) ==
    /\ At(j, "start")
    /\ \E c \in tbbo.free \cup {Len(tbbo.owner) + 1} :
          /\ tbbo' = PoolGet(tbbo, c, j)
          /\ wk' = [wk EXCEPT ![j] = [pc |-> "decode", cols |-> c]]
    /\ UNCHANGED <<jobs, drv, sem, ranLog, master, stale>>
    /\ UNCHANGED <<codecVars, windowVars, physVars, cursorVars, loaderVars, chunkVars, portfolioVars>>

\* LoadQuantDev, loadFromFile(path, cols): success hands the container to
\* the goroutine, an error leads to the Put of LoadQuantDev, a panic is not
\* recovered anywhere and ends the process
Decode(j) ==
    /\ At(j, "decode")
    /\ Touch(j)
    /\ LET st == Outcome[jobs[j]].status
       IN  IF st = "panic"
           THEN /\ drv' = [drv EXCEPT !.pc = "crashed"]
                /\ UNCHANGED wk
           ELSE /\ wk' = [wk EXCEPT ![j].pc = IF st = "ok" THEN "run" ELSE "errput"]
                /\ UNCHANGED drv
    /\ UNCHANGED <<jobs, sem, tbbo, ranLog, master>>
    /\ UNCHANGED <<codecVars, windowVars, physVars, cursorVars, loaderVars, chunkVars, portfolioVars>>

\* LoadQuantDev on an error: TBBOPool.Put(cols); return nil, err.  The
\* goroutine logs (part_000) and returns
ErrPut(j) ==
    /\ At(j, "errput")
    /\ tbbo' = PoolPut(tbbo, wk[j].cols)
    /\ wk' = [wk EXCEPT ![j].pc = "exit"]
    /\ UNCHANGED <<jobs, drv, sem, ranLog, master, stale>>
    /\ UNCHANGED <<codecVars, windowVars, physVars, cursorVars, loaderVars, chunkVars, portfolioVars>>

\* RunStrategy's check of the column lengths: it panics on a short column
CorruptColumns(cols) ==
    \E c \in {"Prices", "BidPx", "AskPx", "BidSz", "AskSz", "TsEvent"} :
        cols.col[c].len < cols.Count

\* RunStrategy(cols, config, local) / RunMultiHorizonStudy(cols, localAgg):
\* the pass over the container; a tape under the minimum returns at once
RunTape(j) ==
    /\ At(j, "run")
    /\ Touch(j)
    /\ IF drv.mode = "test" /\ Outcome[jobs[j]].cols.Count >= StrategyMinRows
             /\ CorruptColumns(Outcome[jobs[j]].cols)
       THEN /\ drv' = [drv EXCEPT !.pc = "crashed"]
            /\ UNCHANGED <<wk, ranLog>>
       ELSE /\ ranLog' = [ranLog EXCEPT ![j] = @ + 1]
            /\ wk' = [wk EXCEPT ![j].pc = IF drv.mode = "test" THEN "merge" ELSE "put"]
            /\ UNCHANGED drv
    /\ UNCHANGED <<jobs, sem, tbbo, master>>
    /\ UNCHANGED <<codecVars, windowVars, physVars, cursorVars, loaderVars, chunkVars, portfolioVars>>

\* portfolio.MergeLocal(local) (part_000), or the merge into master under mu
\* (part_001)
MergeJob(j) ==
    /\ At(j, "merge")
    /\ master' = [master EXCEPT ![j] = @ + 1]
    /\ wk' = [wk EXCEPT ![j].pc = IF drv.mode = "test" THEN "put" ELSE "exit"]
    /\ UNCHANGED <<jobs, drv, sem, tbbo, ranLog, stale>>
    /\ UNCHANGED <<codecVars, windowVars, physVars, cursorVars, loaderVars, chunkVars, portfolioVars>>

\* the goroutine's TBBOPool.Put(cols): deferred to the return in part_000,
\* right after the pass in part_001
PutJob(j) ==
    /\ At(j, "put")
    /\ tbbo' = PoolPut(tbbo, wk[j].cols)
    /\ wk' = [wk EXCEPT ![j].pc = IF drv.mode = "test" THEN "exit" ELSE "merge"]
    /\ UNCHANGED <<jobs, drv, sem, ranLog, master, stale>>
    /\ UNCHANGED <<codecVars, windowVars, physVars, cursorVars, loaderVars, chunkVars, portfolioVars>>

\* the return of the goroutine: defer func() { <-sem }(), defer wg.Done()
Exit(j) ==
    /\ At(j, "exit")
    /\ sem' = sem - 1
    /\ drv' = [drv EXCEPT !.wg = @ - 1]
    /\ wk' = [wk EXCEPT ![j].pc = "done"]
    /\ UNCHANGED <<jobs, tbbo, ranLog, master, stale>>
    /\ UNCHANGED <<codecVars, windowVars, physVars, cursorVars, loaderVars, chunkVars, portfolioVars>>

-----------------------------------------------------------------------------
(* Specifications *)

\* the subsystems added after the four first, before any call
RestStart == LoaderStart /\ ChunkStart /\ PortfolioStart /\ DriverStart

\* the codec before any call
CodecStart ==
    /\ enc = NewEncoder
    /\ file = ZeroBytes(HeaderSize)
    /\ appended = <<>>
    /\ dec = NoLoad
    /\ tape = <<>>

InitCodec == CodecStart /\ WindowStart /\ PhysicsStart /\ CursorStart /\ RestStart

NextCodec ==
    \/ \E r \in Records : AddRow(r)
    \/ Close
    \/ LoadEncoded
    \/ LoadDamaged

SpecCodec == InitCodec /\ [][NextCodec]_vars

\* SpecEncoderIO: the encoder on an output file whose writes can fail
NextEncoderIO ==
    \/ \E r \in Records : AddRow(r)
    \/ \E r \in Records : AddRowWriteFails(r)
    \/ Close

SpecEncoderIO == InitCodec /\ [][NextEncoderIO]_vars

InitWindow ==
    /\ \E n \in 0..MaxWindowSize : rw = NewRollingWindow(n)
    /\ fed = <<>>
    /\ ret = QZero
    /\ CodecStart
    /\ PhysicsStart
    /\ CursorStart
    /\ RestStart

NextWindow ==
    \/ \E val \in WindowInputs : Update(val)
    \/ ResetWindow

SpecWindow == InitWindow /\ [][NextWindow]_vars

InitPhysics == PhysicsStart /\ CodecStart /\ WindowStart /\ CursorStart /\ RestStart

NextPhysics ==
    \/ \E ev \in NextRows : UpdateAtomsCheck(ev)
    \/ UpdateAtomsCompute

SpecPhysics == InitPhysics /\ [][NextPhysics]_vars

\* every tape of up to MaxTape timestamps, in any order
Tapes == UNION { [1..n -> 0..(TsMod - 1)] : n \in 0..MaxTape }

InitCursor ==
    /\ tsEvents \in Tapes
    /\ CursorIdle
    /\ CodecStart /\ WindowStart /\ PhysicsStart /\ RestStart

NextCursor ==
    \/ RunStrategyBegin
    \/ \E sig \in Signals : RunStrategyStep(sig)
    \/ RunMultiHorizonStudyBegin
    \/ RunMultiHorizonStudyStep

SpecCursor == InitCursor /\ [][NextCursor]_vars

InitLoader == CodecStart /\ WindowStart /\ PhysicsStart /\ CursorStart /\ RestStart

NextLoader ==
    \/ \E r \in Records : AddRow(r)
    \/ Close
    \/ LoadQuantDevEncoded
    \/ LoadQuantDevForeign
    \/ PutCols

SpecLoader == InitLoader /\ [][NextLoader]_vars

\* SpecReuse: tapes of several lengths loaded one after the other through
\* the pool
NextReuse ==
    \/ LoadQuantDevTape
    \/ PutCols

SpecReuse == InitLoader /\ [][NextReuse]_vars

InitChunks ==
    /\ stream \in Streams
    /\ byChunk = <<>>
    /\ CodecStart /\ WindowStart /\ PhysicsStart /\ CursorStart /\ LoaderStart
    /\ PortfolioStart /\ DriverStart

NextChunks == \E cs \in 1..Len(stream) : EncodeDecode(cs)

SpecChunks == InitChunks /\ [][NextChunks]_vars

\* SpecStats: two tapes of one symbol, each run by RunStrategy into its own
\* local report and then merged, one MergeLocal call at a time
InitStats ==
    /\ PortfolioStart
    /\ CodecStart /\ WindowStart /\ PhysicsStart /\ CursorStart
    /\ LoaderStart /\ ChunkStart /\ DriverStart

NextStats ==
    \/ \E w \in Workers, o \in Observations : RunStrategyRecord(w, o[1], o[2])
    \/ \E w \in Workers : MergeLocal(w)

SpecStats == InitStats /\ [][NextStats]_vars

\* SpecLocks: the workers call MergeLocal concurrently, each with the report
\* of a finished tape of some symbol
FinishedLocals ==
    { NewLocal(sym) : sym \in Symbols } \cup
    { RecordInto(NewLocal(sym), Num(1), Num(2)) : sym \in Symbols } \cup
    { RecordInto(RecordInto(NewLocal(sym), Num(1), Num(2)), Num(-1), Num(1)) : sym \in Symbols }

InitLocks ==
    /\ metric = NoMetric
    /\ locals \in [Workers -> FinishedLocals]
    /\ assets = NoAssets
    /\ mergedOrder = <<>>
    /\ mu = "free"
    /\ symLock = NoLocks
    /\ wpc = [w \in Workers |-> "run"]
    /\ CodecStart /\ WindowStart /\ PhysicsStart /\ CursorStart
    /\ LoaderStart /\ ChunkStart /\ DriverStart

MergeLocalStep(w) ==
    \/ AcquireMu(w)
    \/ LookupRelease(w)
    \/ AcquireSym(w)
    \/ MergeData(w)
    \/ ReleaseSym(w)

NextLocks == \E w \in Workers : MergeLocalStep(w)

SpecLocks == InitLocks /\ [][NextLocks]_vars

\* a goroutine that can take a step is eventually scheduled
SpecLocksFair == SpecLocks /\ \A w \in Workers : WF_vars(MergeLocalStep(w))

\* SpecPass: one RunStrategy pass over a tape of PassCalls + 1 rows
InitPass ==
    /\ PhysicsStart
    /\ CodecStart /\ WindowStart /\ CursorStart /\ RestStart

NextPass ==
    \/ \E ev \in FirstRows : RunStrategyPrime(ev)
    \/ RunStrategyUpdateAtoms
    \/ UpdateAtomsCompute

SpecPass == InitPass /\ [][NextPass]_vars


\* SpecMid: the horizon returns of a RunStrategy pass over a thin tape, or of
\* RunMultiHorizonStudy over rows of one
NextMid ==
    \/ \E ev \in ThinRows(0, 0) : hret.loop # "study" /\ RunStrategyPrime(ev)
    \/ \E ev \in ThinRows(((IF nEv = 0 THEN last.ev.Sequence ELSE mp.LastSeq) + 1) % SeqMod, nEv + 1) :
           last # NoCall /\ nEv < PassCalls /\ UpdateAtomsCheck(ev)
    \/ UpdateAtomsCompute
    \/ \E fut \in {last.ev} \cup ThinRows((last.ev.Sequence + 1) % SeqMod, nEv + 1) : RunStrategyReturn(fut)
    \/ \E ev \in ThinRows(0, 0), fut \in ThinRows(0, 0) \cup ThinRows(1, 1) :
           RunMultiHorizonStudyReturn(ev, fut)

SpecMid == InitPass /\ [][NextMid]_vars

\* SpecSignals: SignalEngine.Compute applied to any atom vector, any physics
\* state, any index and any previous contents of the output array
InitSignals ==
    /\ atoms \in AtomVectors
    /\ alphas \in {ZeroSignals, StaleSignals}
    /\ mp \in {NewMarketPhysics, [NewMarketPhysics EXCEPT !.validHist = TRUE, !.LastSeq = 1]}
    /\ nEv \in {0, 1}
    /\ cur = NoRow /\ last = NoCall /\ pc = "idle" /\ hret = NoReturn
    /\ CodecStart /\ WindowStart /\ CursorStart /\ RestStart

NextSignals == Compute

SpecSignals == InitSignals /\ [][NextSignals]_vars

\* SpecMetrics: RankIC and DeltaLogLoss of a global report holding any
\* retained samples
InitMetrics ==
    /\ \E l \in SampleLists :
          assets = [sym \in {"ES"} |-> [NewSymbolReport EXCEPT !.Signals = ICStatsOf(l)]]
    /\ metric = NoMetric
    /\ locals = [w \in Workers |-> NewLocal("ES")]
    /\ mergedOrder = <<>>
    /\ mu = "free"
    /\ symLock = [sym \in {"ES"} |-> "free"]
    /\ wpc = [w \in Workers |-> "done"]
    /\ CodecStart /\ WindowStart /\ PhysicsStart /\ CursorStart
    /\ LoaderStart /\ ChunkStart /\ DriverStart

NextMetrics == RankIC \/ DeltaLogLoss

SpecMetrics == InitMetrics /\ [][NextMetrics]_vars

\* SpecDriver: one run of a study driver over any list of tape files
InitDriver ==
    /\ \E d \in Drivers, js \in JobLists : DriverAt(d, js)
    /\ CodecStart /\ WindowStart /\ PhysicsStart /\ CursorStart
    /\ LoaderStart /\ ChunkStart /\ PortfolioStart

Goroutine(j) ==
    \/ GetCols(j)
    \/ Decode(j)
    \/ ErrPut(j)
    \/ RunTape(j)
    \/ MergeJob(j)
    \/ PutJob(j)
    \/ Exit(j)

NextDriver ==
    \/ Spawn
    \/ WaitAndReturn
    \/ \E j \in 1..MaxJobs : Goroutine(j)

SpecDriver == InitDriver /\ [][NextDriver]_vars

\* the Go scheduler runs every goroutine that can take a step
SpecDriverFair ==
    /\ SpecDriver
    /\ WF_vars(Spawn)
    /\ WF_vars(WaitAndReturn)
    /\ \A j \in 1..MaxJobs : WF_vars(Goroutine(j))

-----------------------------------------------------------------------------
(* Claims about the codec, checked under SpecCodec *)

\* C1. Round trip: once the encoder is closed, loading the file it wrote
\* succeeds with Count = the number of AddRow calls, every column has that
\* length, and element i of every column is the value AddRow appended to
\* that column for the i-th record.
C1_RoundTrip ==
    (enc.closed /\ tape = file) =>
        /\ dec.status = "ok"
        /\ dec.cols.Count = Len(appended)
        /\ \A c \in ColNames :
            /\ dec.cols.col[c].len = Len(appended)
            /\ \A i \in 1..Len(appended) :
                 dec.cols.col[c].arr[i] = Staged(c, appended[i])

\* a closed file of more rows than one chunk holds, with different records
\* in it, was loaded
C1_Witness ==
    /\ enc.closed
    /\ tape = file
    /\ Len(appended) > ChunkSize
    /\ appended[1] # appended[2]
    /\ dec.status = "ok"

\* C9 (as claimed). Whenever the chunks of the body hold a number of rows
\* other than the header's total_rows, loadFromFile fails with the
\* row-count-mismatch error.
C9_CountMismatch ==
    (Decoded /\ BodyRows(tape) # HeaderRows(tape)) => dec.status = "count_mismatch"

\* C10. Corrupt chunk: if chunk j is the first whose rows pass total_rows
\* (the chunks before it hold fewer rows than total_rows), loadFromFile fails
\* with the corrupt-chunk error at that chunk; and whenever it fails with that
\* error, the length word it just read overshoots, the read offset stands
\* right behind that word (no column block was read), no element at or after
\* row pos was written, and Count is 0.
C10_CorruptChunk ==
    /\ Decoded =>
         \A j \in 1..ChunkCount(tape) :
            (/\ RowsBefore(tape, j) < HeaderRows(tape)
             /\ RowsBefore(tape, j) + ChunkLen(tape, j) > HeaderRows(tape))
            => /\ dec.status = "corrupt_chunk"
               /\ dec.pos = RowsBefore(tape, j)
               /\ dec.off = ChunkOffset(tape, j) + 4
    /\ dec.status = "corrupt_chunk" =>
         /\ dec.pos + Uint(tape, dec.off - 4, 4) > dec.nRows
         /\ dec.cols.Count = 0
         /\ \A c \in ColNames : \A i \in (dec.pos + 1)..dec.nRows :
               dec.cols.col[c].arr[i] = Zero(Kind(c))

\* a second chunk, after a first that was read, is refused
C10_Witness ==
    /\ dec.status = "corrupt_chunk"
    /\ dec.pos > 0
    /\ dec.pos < BodyRows(tape)

-----------------------------------------------------------------------------
(* Claims about the rolling window, checked under SpecWindow *)

RECURSIVE SumOf(_)
\* the sum of a sequence of values
SumOf(xs) == IF xs = <<>> THEN QZero ELSE QAdd(xs[1], SumOf(Tail(xs)))

Min(a, b) == IF a < b THEN a ELSE b

\* C4. Rolling-window correctness: after the i-th Update since construction
\* or Reset (i >= 1) of a window of capacity k >= 1, the value returned is
\* the sum of the last min(i, k) inputs divided by min(i, k), and the window
\* holds min(i, k) values.
C4_RollingMean ==
    Len(fed) >= 1 =>
        LET i == Len(fed)
            m == Min(i, rw.Size)
        IN  /\ rw.Size >= 1
            /\ ret = QDivInt(SumOf(SubSeq(fed, i - m + 1, i)), m)
            /\ rw.Count = m

\* a window of capacity 2 that was reset while full has since been fed three
\* values: the first of them has been evicted
C4_Witness ==
    /\ rw.Size = 2
    /\ Len(fed) = 3
    /\ fed[1] # fed[3]
    /\ fed[1] # QZero
    /\ ret = QDivInt(QAdd(fed[2], fed[3]), 2)

-----------------------------------------------------------------------------
(* Claims about the market physics, checked under SpecPhysics *)

LiqCleared(l) == ~l.Active /\ l.Side = 0 /\ l.Volume = QZero

\* C2.  Sequence-gap invalidation: whenever the gap check of UpdateAtoms runs
\* with validHist true and a sequence other than LastSeq + 1, it resets all
\* five rolling windows (count 0, sum 0), clears the liquidation sub-state and
\* makes validHist false, with no atom written yet; and in every case it sets
\* LastSeq to the event's sequence.
C2_GapInvalidation ==
    [][ (pc = "idle" /\ pc' = "checked") =>
          /\ mp'.LastSeq = cur'.Sequence
          /\ (mp.validHist /\ cur'.Sequence # (mp.LastSeq + 1) % SeqMod) =>
                /\ \A w \in WindowNames :
                      /\ mp'[w].Count = 0
                      /\ mp'[w].Sum = QZero
                      /\ \A k \in 1..mp'[w].Size : mp'[w].Buf[k] = QZero
                /\ LiqCleared(mp'.LiqState)
                /\ ~mp'.validHist
                /\ atoms' = atoms ]_vars

\* a gap check that has just wiped the windows a trade had filled
C2_Witness ==
    /\ pc = "checked"
    /\ ~last.bailed /\ last.ev.Action = 84
    /\ cur.Sequence # (last.ev.Sequence + 1) % SeqMod
    /\ ~mp.validHist
    /\ \A w \in WindowNames : mp[w].Count = 0
    /\ LiqCleared(mp.LiqState)
    /\ atoms.RawOFI # QZero

\* the last completed call was for an event that followed a non-contiguous
\* sequence while history was valid
AfterGapEvent ==
    /\ pc = "idle" /\ nEv >= 1
    /\ last.hadHist
    /\ last.ev.Sequence # (last.prevSeq + 1) % SeqMod

DerivedOutputsZero ==
    /\ atoms.RawOFI = QZero /\ atoms.CrowdSkew = QZero /\ atoms.LatUrgency = QZero
    /\ atoms.SweepKappa = QZero /\ atoms.LiqStrength = QZero

\* C3 as stated.  Gap invariance: for an event immediately following a
\* non-contiguous sequence all derived-aggregate outputs are 0, and after the
\* event every rolling window has count 1 if the event is a trade, 0 if not.
C3_GapInvariance_Stated ==
    AfterGapEvent =>
        /\ DerivedOutputsZero
        /\ \A w \in WindowNames :
              mp[w].Count = IF last.ev.Action = 84 THEN 1 ELSE 0

\* C3, amended.  Gap invariance: for an event immediately following a
\* non-contiguous sequence all derived-aggregate outputs are 0, and after the
\* event every rolling window has count 0, whether the event is a trade or not.
C3_GapInvariance ==
    AfterGapEvent =>
        /\ DerivedOutputsZero
        /\ \A w \in WindowNames : mp[w].Count = 0 /\ mp[w].Sum = QZero

\* a trade after a gap, the third call of the pass
C3_Witness ==
    /\ AfterGapEvent
    /\ nEv = 3
    /\ last.ev.Action = 84 /\ last.ev.Side = 1
    /\ \A w \in WindowNames : mp[w].Count = 0
    /\ DerivedOutputsZero
    /\ mp.validHist

-----------------------------------------------------------------------------
(* Claims about the horizon cursors, checked under SpecCursor *)

InLoopStep == loop \in {"strategy", "study"} /\ loopI' = loopI + 1

\* C5.  Horizon cursor contract: within one tape pass, for every horizon h and
\* every event i, the cursor after event i is at least max(i, its value after
\* event i-1): it never moves backwards and never points before the event.
C5_CursorContract ==
    [][ InLoopStep =>
          \A h \in Horizons :
              /\ cursors'[h] >= cursors[h]
              /\ cursors'[h] >= loopI ]_vars

\* RunStrategy at event 2: the 30 s cursor already stood ahead of the event
\* and stays, the 10 s cursor moves on
C5_Witness ==
    /\ iter.observed[1] /\ iter.i = 2
    /\ iter.start[3] > iter.i /\ cursors[3] = iter.start[3]
    /\ cursors[1] > iter.start[1]

\* the events at or after the starting cursor of horizon h all lie before
\* the target time of the last iteration
NoTarget(h) ==
    LET c1 == IF iter.start[h] < iter.i THEN iter.i ELSE iter.start[h]
    IN  \A k \in c1..(Len(tsEvents) - 1) :
            tsEvents[k + 1] < tsEvents[iter.i + 1] + HorizonDurations[h]

AfterIteration == loop \in {"strategy", "study", "done"} /\ iter.ret[1] # "none"

\* C6.  Undefined horizon target: when no index at or after the cursor has
\* ts_event >= ts_event[i] + h, the cursor is clamped to n-1 and the return
\* for (i, h) is marked undefined, and no observation and no strategy update
\* is accumulated for that event and horizon.
C6_UndefinedTarget ==
    AfterIteration =>
        \A h \in Horizons :
            NoTarget(h) =>
                /\ cursors[h] = Len(tsEvents) - 1
                /\ iter.ret[h] = "NaN"
                /\ ~iter.observed[h]
                /\ ~iter.updated[h]

\* C7.  Horizon monotonicity: for horizons h1 < h2 and every event of a tape
\* pass, the cursor of h1 is at most the cursor of h2.
C7_HorizonMonotone ==
    AfterIteration =>
        \A h1, h2 \in Horizons :
            HorizonDurations[h1] < HorizonDurations[h2] => cursors[h1] <= cursors[h2]

-----------------------------------------------------------------------------
(* Claims about LoadQuantDev, checked under SpecLoader *)

\* C11.  Decoder bad magic: a file whose first 4 header bytes differ from the
\* format magic is refused with an error before any column is sized or any
\* chunk is read (the container is left as the pool handed it out, the read
\* position is the end of the header), LoadQuantDev hands no container to
\* the caller, and the container it took is back in the pool.
C11_BadMagic ==
    [][ (lq'.n = lq.n + 1 /\ lq'.magic # MagicGNC) =>
          /\ lq'.status = "bad_magic"
          /\ lq'.left = lq'.got
          /\ lq'.off = HeaderSize
          /\ lq'.out = "nil"
          /\ held' = held
          /\ Len(pool') + Len(held') >= 1
          /\ \E k \in 1..Len(pool') : pool'[k] = lq'.got ]_vars

\* a closed file of two rows or more under a foreign magic, refused while
\* the pool hands out a container that an earlier load had filled
C11_Witness ==
    /\ lq.status = "bad_magic"
    /\ lq.magic \in ForeignMagics
    /\ enc.closed /\ enc.totalRows >= 2
    /\ lq.got.col["TsEvent"].len >= 2
    /\ lq.out = "nil"
    /\ \E k \in 1..Len(pool) : pool[k] = lq.got

-----------------------------------------------------------------------------
(* Claims about the chunk size, checked under SpecChunks *)

\* C12.  Chunk boundary invariance: for a fixed record stream of N rows, the
\* decoded container (Count and every column) is the same for every chunk
\* size in 1..N used by the encoder, and every such load succeeds.
C12_ChunkInvariance ==
    \A a, b \in DOMAIN byChunk :
        /\ byChunk[a].status = "ok"
        /\ byChunk[a].cols.Count = Len(stream)
        /\ byChunk[a].cols = byChunk[b].cols

\* a four-row stream holding both records, decoded under each chunk size
C12_Witness ==
    /\ Len(stream) = 4
    /\ stream[1] # stream[2] /\ stream[3] # stream[4]
    /\ DOMAIN byChunk = 1..4
    /\ byChunk[1].cols = byChunk[4].cols
    /\ byChunk[3].cols.col["Sequences"].arr[2] = stream[2].seq

-----------------------------------------------------------------------------
(* Claims about the written file, checked under SpecCodec *)

RECURSIVE WidthsFrom(_)
\* the bytes one row takes in a chunk: the widths of the 18 columns
WidthsFrom(k) ==
    IF k > Len(EncColOrder) THEN 0
    ELSE Width(Kind(EncColOrder[k])) + WidthsFrom(k + 1)

RowWidth == WidthsFrom(1)

\* the chunks N rows make: full chunks of ChunkSize rows and a last partial one
ChunksFor(N) == (N + ChunkSize - 1) \div ChunkSize

RowsOfChunk(N, j) == IF j * ChunkSize <= N THEN ChunkSize ELSE N - (j - 1) * ChunkSize

\* where the j-th chunk starts when every chunk before it is full
StartOfChunk(j) == HeaderSize + (j - 1) * (4 + ChunkSize * RowWidth)

\* C13.  Encoder close consistency: after any sequence of AddRow calls and a
\* Close, the header's total_rows equals the number of AddRow calls and the
\* sum of the length words of all chunks in the body, the trailing partial
\* chunk (if any) has been written, the footer's chunk_count equals the
\* number of chunks written, and the header's footer_offset is the byte
\* position of the footer's chunk_count word, right behind the last chunk.
C13_CloseConsistency ==
    enc.closed =>
        LET N == Len(appended)
            K == ChunksFor(N)
        IN  /\ HeaderRows(file) = N
            /\ FooterPos(file) = HeaderSize + 4 * K + N * RowWidth
            /\ Len(file) = FooterPos(file) + 4 + 8 * K
            /\ ChunkCount(file) = K
            /\ Len(enc.chunkOffsets) = K
            /\ BodyRows(file) = N
            /\ \A c \in ColNames : enc.stage[c] = <<>>
            /\ N % ChunkSize # 0 => ChunkLen(file, K) = N % ChunkSize

\* five rows closed: two full chunks and a trailing chunk of one row
C13_Witness ==
    /\ enc.closed
    /\ Len(appended) = 2 * ChunkSize + 1
    /\ ChunkCount(file) = 3
    /\ ChunkLen(file, 3) = 1
    /\ HeaderRows(file) = 2 * ChunkSize + 1

OffsetsAtChunks ==
    /\ ChunkCount(file) = ChunksFor(Len(appended))
    /\ \A j \in 1..ChunkCount(file) :
          /\ ChunkOffset(file, j) = StartOfChunk(j)
          /\ Uint(file, ChunkOffset(file, j), 4) = RowsOfChunk(Len(appended), j)
    /\ \A j \in 1..(ChunkCount(file) - 1) : ChunkOffset(file, j) < ChunkOffset(file, j + 1)

\* C14 as stated.  Footer offsets: the footer holds one offset per chunk, each
\* the byte offset of that chunk's leading n word; the offsets are strictly
\* increasing and every offset is > 64.
C14_FooterOffsets_Stated ==
    enc.closed =>
        /\ OffsetsAtChunks
        /\ \A j \in 1..ChunkCount(file) : ChunkOffset(file, j) > HeaderSize

\* C14, amended.  Footer offsets: the footer holds one offset per chunk, each
\* the byte offset of that chunk's leading n word; the offsets are strictly
\* increasing, the first offset is exactly 64 and every later one is > 64.
C14_FooterOffsets ==
    enc.closed =>
        /\ OffsetsAtChunks
        /\ \A j \in 1..ChunkCount(file) :
              IF j = 1 THEN ChunkOffset(file, j) = HeaderSize
              ELSE ChunkOffset(file, j) > HeaderSize

\* chunks of ChunkSize, ChunkSize and 1 rows: three offsets, the first at 64
C14_Witness ==
    /\ enc.closed
    /\ Len(appended) = 2 * ChunkSize + 1
    /\ ChunkCount(file) = 3
    /\ ChunkOffset(file, 1) = 64
    /\ ChunkOffset(file, 2) > 64
    /\ ChunkOffset(file, 3) > ChunkOffset(file, 2)
    /\ Uint(file, ChunkOffset(file, 3), 4) = 1

-----------------------------------------------------------------------------
(* Claims about the statistics, checked under SpecStats *)

Reports == { locals[w].rep : w \in Workers } \cup { assets[s] : s \in DOMAIN assets }

\* C15: whatever was observed, updated and merged, no report holds more than
\* maxICSamples signals or returns of an ICStats nor more than
\* maxReturnsPerStat returns of an AdvancedStats
C15_BoundedMemory ==
    \A r \in Reports :
        /\ Len(r.Signals.Sig) <= maxICSamples
        /\ Len(r.Signals.Ret) <= maxICSamples
        /\ Len(r.Trades.Returns) <= maxReturnsPerStat

\* a tape that was observed and updated beyond both caps, and a global report
\* that was offered more samples than it may keep
C15_Witness ==
    /\ \E w \in Workers :
          /\ locals[w].n > maxICSamples
          /\ Len(locals[w].rep.Signals.Sig) = maxICSamples
          /\ locals[w].rep.Trades.Count > maxReturnsPerStat
          /\ Len(locals[w].rep.Trades.Returns) = maxReturnsPerStat
    /\ Len(mergedOrder) = 2
    /\ Len(locals["A"].rep.Signals.Sig) + Len(locals["B"].rep.Signals.Sig) > maxICSamples
    /\ Len(assets["ES"].Signals.Sig) = maxICSamples

RECURSIVE FPow(_, _)
FPow(x, k) == IF k = 1 THEN x ELSE FMul(FPow(x, k - 1), x)

\* the sum of the k-th powers of a list of nets
RECURSIVE SumOfPowers(_, _)
SumOfPowers(nets, k) ==
    IF nets = <<>> THEN Num(0)
    ELSE FAdd(SumOfPowers(SubSeq(nets, 1, Len(nets) - 1), k), FPow(nets[Len(nets)], k))

\* the nets of every Update call of the workers ws, in that order
RECURSIVE NetsOf(_)
NetsOf(ws) == IF ws = <<>> THEN <<>> ELSE locals[Head(ws)].nets \o NetsOf(Tail(ws))

Covers(t, nets) ==
    /\ t.Count = Len(nets)
    /\ t.Wins = Cardinality({ i \in 1..Len(nets) : FGt(nets[i], Num(0)) })
    /\ t.SumPnL  = SumOfPowers(nets, 1)
    /\ t.SumPnL2 = SumOfPowers(nets, 2)
    /\ t.SumPnL3 = SumOfPowers(nets, 3)
    /\ t.SumPnL4 = SumOfPowers(nets, 4)

\* C16: Count, Wins and the four moment sums of every accumulator cover every
\* Update call made on it or merged into it, kept in Returns or not
C16_RunningMoments ==
    /\ \A w \in Workers : Covers(locals[w].rep.Trades, locals[w].nets)
    /\ \A s \in DOMAIN assets : Covers(assets[s].Trades, NetsOf(mergedOrder))

\* both tapes made more updates than Returns keeps, and both were merged
C16_Witness ==
    /\ Len(mergedOrder) = 2
    /\ \A w \in Workers :
          /\ Len(locals[w].nets) > maxReturnsPerStat
          /\ Len(locals[w].rep.Trades.Returns) = maxReturnsPerStat
          /\ locals[w].rep.Trades.Wins >= 1
    /\ assets["ES"].Trades.Count > Len(assets["ES"].Trades.Returns)
    /\ assets["ES"].Trades.Count = Len(locals["A"].nets) + Len(locals["B"].nets)

\* the accumulator of worker w was updated in this step
Updated(w) == Len(locals'[w].nets) = Len(locals[w].nets) + 1

\* the global accumulator of symbol s before a step that may have created it
GlobalBefore(s) == IF s \in DOMAIN assets THEN assets[s].Trades ELSE NewAdvancedStats

NeverDecrease(before, after) ==
    /\ FGe(after.MaxDD, before.MaxDD)
    /\ FGe(after.PeakPnL, before.PeakPnL)

\* MaxDD and PeakPnL of every accumulator never decrease, by Update or by
\* MergeLocal
DrawdownNeverDecreases ==
    [][ /\ \A w \in Workers :
              NeverDecrease(locals[w].rep.Trades, locals'[w].rep.Trades)
        /\ \A s \in DOMAIN assets' :
              NeverDecrease(GlobalBefore(s), assets'[s].Trades) ]_vars

DrawdownBound(t) ==
    /\ FGe(t.MaxDD, FSub(t.PeakPnL, t.TotalPnL))
    /\ FGe(FSub(t.PeakPnL, t.TotalPnL), Num(0))

\* C17: MaxDD and PeakPnL of every accumulator never decrease, and after each
\* Update MaxDD >= PeakPnL - TotalPnL >= 0
C17_DrawdownMonotone ==
    [][ /\ \A w \in Workers :
              /\ NeverDecrease(locals[w].rep.Trades, locals'[w].rep.Trades)
              /\ Updated(w) => DrawdownBound(locals'[w].rep.Trades)
        /\ \A s \in DOMAIN assets' :
              NeverDecrease(GlobalBefore(s), assets'[s].Trades) ]_vars

\* the bound after the updates of a tape whose nets are all finite
DrawdownBoundFinite ==
    [][ \A w \in Workers :
            (Updated(w) /\ \A i \in 1..Len(locals'[w].nets) : locals'[w].nets[i].k = "num")
                => DrawdownBound(locals'[w].rep.Trades) ]_vars

\* the global report after MergeLocal was called for the workers ws in order
RECURSIVE MergedIn(_)
MergedIn(ws) ==
    IF ws = <<>> THEN NewSymbolReport
    ELSE MergeReports(MergedIn(SubSeq(ws, 1, Len(ws) - 1)), locals[ws[Len(ws)]].rep)

Reverse(ws) == [i \in 1..Len(ws) |-> ws[Len(ws) + 1 - i]]

SameSums(x, y) ==
    /\ x.Trades.Count = y.Trades.Count
    /\ x.Trades.Wins = y.Trades.Wins
    /\ x.Trades.TotalPnL = y.Trades.TotalPnL
    /\ x.Trades.TotalFees = y.Trades.TotalFees
    /\ x.Trades.PnL_Markout = y.Trades.PnL_Markout
    /\ x.Trades.PnL_Real = y.Trades.PnL_Real
    /\ x.Trades.SumPnL = y.Trades.SumPnL
    /\ x.Trades.SumPnL2 = y.Trades.SumPnL2
    /\ x.Trades.SumPnL3 = y.Trades.SumPnL3
    /\ x.Trades.SumPnL4 = y.Trades.SumPnL4

SameLists(x, y) ==
    /\ x.Signals.Sig = y.Signals.Sig
    /\ x.Signals.Ret = y.Signals.Ret
    /\ x.Trades.Returns = y.Trades.Returns

\* how often v occurs in a list
Occurrences(l, v) == Cardinality({ i \in 1..Len(l) : l[i] = v })

SameSamples(a, b) ==
    /\ Len(a) = Len(b)
    /\ \A i \in 1..Len(a) : Occurrences(a, a[i]) = Occurrences(b, a[i])

\* C18: once both tapes of the symbol are merged, the global report has the
\* counts, wins, sums and retained lists that the other merge order gives
C18_MergeOrderIndependence ==
    Len(mergedOrder) = 2 =>
        /\ SameSums(assets["ES"], MergedIn(Reverse(mergedOrder)))
        /\ SameLists(assets["ES"], MergedIn(Reverse(mergedOrder)))

\* the counts, wins and sums alone do not depend on the merge order
MergeOrderSameSums ==
    Len(mergedOrder) = 2 => SameSums(assets["ES"], MergedIn(Reverse(mergedOrder)))

\* the retained samples, compared without regard to their position
MergeOrderSameSamples ==
    Len(mergedOrder) = 2 =>
        LET x == assets["ES"]
            y == MergedIn(Reverse(mergedOrder))
        IN  /\ SameSamples(x.Signals.Sig, y.Signals.Sig)
            /\ SameSamples(x.Signals.Ret, y.Signals.Ret)
            /\ SameSamples(x.Trades.Returns, y.Trades.Returns)

\* NaN, +Inf or -Inf
NonFinite(x) == x.k # "num"

\* C19: an event of RunStrategy whose signal or return is NaN or infinite
\* leaves the ICStats lists and every AdvancedStats field as they were
C19_NonFiniteDropped ==
    [][ \A w \in Workers, o \in Observations :
            ((NonFinite(o[1]) \/ NonFinite(o[2])) /\ RunStrategyRecord(w, o[1], o[2]))
                => locals'[w].rep = locals[w].rep ]_vars

\* the same for an event whose signal is NaN, which is the case the code tests
NaNSignalDropped ==
    [][ \A w \in Workers, o \in Observations :
            (IsNaN(o[1]) /\ RunStrategyRecord(w, o[1], o[2]))
                => locals'[w].rep = locals[w].rep ]_vars

-----------------------------------------------------------------------------
(* Claims about the portfolio locks, checked under SpecLocksFair *)

\* the worker holding p.Mu is between Lock and Unlock of p.Mu and neither
\* waits for nor holds the Lock of a SymbolReport
LockDiscipline ==
    \A w \in Workers :
        mu = w =>
            /\ wpc[w] = "lookup"
            /\ \A s \in DOMAIN symLock : symLock[s] # w

AllDone == \A w \in Workers : wpc[w] = "done"

\* some call of MergeLocal that has not returned can take its next step
NoDeadlockState == AllDone \/ ENABLED NextLocks

\* C20: p.Mu is never held while a per-symbol Lock is acquired or held, no
\* state is a deadlock, and every MergeLocal call returns
C20_LockDiscipline ==
    /\ []LockDiscipline
    /\ []NoDeadlockState
    /\ <>[]AllDone

\* two workers merge into the same symbol: one is inside the merge, the other
\* has released p.Mu and waits for that symbol's Lock
C20_Witness ==
    \E a, b \in Workers :
        /\ a # b
        /\ locals[a].sym = locals[b].sym
        /\ wpc[a] = "merge"
        /\ wpc[b] = "wantSym"
        /\ symLock[locals[a].sym] = a
        /\ mu = "free"

-----------------------------------------------------------------------------
(* Further claims about the market physics, checked under SpecPhysics *)

CheckStep == pc = "idle" /\ pc' = "checked"

ComputeStep == pc = "checked" /\ pc' = "idle"

\* the previous-snapshot sizes as the event g left them
SnapshotOf(g) == [PrevBidSz |-> g.BidSz, PrevAskSz |-> g.AskSz]

\* C23: after an event that triggered gap invalidation, the gap check keeps
\* validHist and the windows for the next sequence number, and that event is
\* then processed normally: every window receives its first value, computed
\* against the snapshot the gap event took.  Any other sequence number is a
\* gap again, and the event emits zeros.
C23_ResumeAfterGap ==
    [][ /\ (AfterGapEvent /\ CheckStep) =>
              IF cur'.Sequence = (last.ev.Sequence + 1) % SeqMod
              THEN /\ mp'.validHist
                   /\ \A w \in WindowNames : mp'[w] = mp[w]
              ELSE /\ ~mp'.validHist
                   /\ \A w \in WindowNames : mp'[w].Count = 0
        /\ (ComputeStep /\ nEv >= 1 /\ last.bailed) =>
              IF cur.Sequence = (last.ev.Sequence + 1) % SeqMod
              THEN /\ mp.validHist
                   /\ \A w \in WindowNames : mp'[w].Count = 1
                   /\ mp.PrevBidSz = last.ev.BidSz /\ mp.PrevAskSz = last.ev.AskSz
                   /\ atoms'.RawOFI = OrderFlow(SnapshotOf(last.ev), cur)
                   /\ atoms'.SweepKappa = Kappa(SnapshotOf(last.ev), cur)
                   /\ atoms'.CrowdSkew = QSub(AvgOrder(cur.BidSz, cur.BidCt),
                                              AvgOrder(cur.AskSz, cur.AskCt))
                   /\ atoms'.LatUrgency = Urgency(cur)
              ELSE /\ atoms'.RawOFI = QZero /\ atoms'.CrowdSkew = QZero
                   /\ atoms'.LatUrgency = QZero /\ atoms'.SweepKappa = QZero
                   /\ atoms'.LiqStrength = QZero
                   /\ \A w \in WindowNames : mp'[w].Count = 0 ]_vars

\* the third call of a pass is a trade processed normally right after the
\* second call hit a gap: every window holds one value
C23_Witness ==
    /\ pc = "idle" /\ nEv = 3
    /\ ~last.bailed
    /\ last.ev.Action = 84 /\ last.ev.Side = 1
    /\ \A w \in WindowNames : mp[w].Count = 1
    /\ atoms.RawOFI # QZero
    /\ atoms.SweepKappa # QZero

-----------------------------------------------------------------------------
(* Claims about a RunStrategy pass, checked under SpecPass *)

\* the first UpdateAtoms call of the pass is about to write its atoms
FirstCompute == ComputeStep /\ nEv = 0

\* C24: the first UpdateAtoms call of a pass, for a row whose sequence follows
\* row 0's, computes its aggregates against the snapshot primed from row 0
\* and gives every window its first value
C24_FirstEvent ==
    [][ (FirstCompute /\ cur.Sequence = (last.ev.Sequence + 1) % SeqMod) =>
          /\ atoms'.RawOFI = OrderFlow(SnapshotOf(last.ev), cur)
          /\ atoms'.SweepKappa = Kappa(SnapshotOf(last.ev), cur)
          /\ atoms'.CrowdSkew = QSub(AvgOrder(cur.BidSz, cur.BidCt),
                                     AvgOrder(cur.AskSz, cur.AskCt))
          /\ atoms'.LatUrgency = Urgency(cur)
          /\ \A w \in WindowNames : mp'[w].Count = 1 ]_vars

\* what the first call does: whatever row 0 was, it takes the snapshot of its
\* own row, emits zeros and feeds no window
FirstCallBails ==
    [][ FirstCompute =>
          /\ mp.PrevBidSz = last.ev.BidSz /\ mp.PrevAskSz = last.ev.AskSz
          /\ ~mp.validHist /\ mp'.validHist
          /\ mp'.PrevBidSz = cur.BidSz /\ mp'.PrevAskSz = cur.AskSz
          /\ atoms'.RawOFI = QZero /\ atoms'.CrowdSkew = QZero
          /\ atoms'.LatUrgency = QZero /\ atoms'.SweepKappa = QZero
          /\ atoms'.LiqStrength = QZero
          /\ \A w \in WindowNames : mp'[w].Count = 0 ]_vars

-----------------------------------------------------------------------------
(* Claims about the liquidation run and the window inputs, checked under    *)
(* SpecPhysics                                                              *)

\* the last call took the normal path
Processed == pc = "idle" /\ nEv >= 1 /\ ~last.bailed

\* action trade, q > 0, s # 0
Qualifying(ev) == ev.Action = 84 /\ ev.Size.n > 0 /\ ev.Side # 0

HasLiquidationFlag(ev) == (ev.Flags \div 128) % 2 = 1

\* the side flipped or the price went back behind the run's extremum
BreaksRun(l, ev) ==
    \/ ev.Side # l.Side
    \/ l.Side = 1  /\ QLt(ev.Price, l.MaxPrice)
    \/ l.Side = -1 /\ QLt(l.MaxPrice, ev.Price)

StrengthOf(l, p) ==
    QMul(QMul(l.Volume, QAdd(QInt(1), QMul(QAbs(QSub(p, l.StartPrice)), QInt(100)))),
         QInt(l.Side))

LiquidationLaw ==
    IF Qualifying(last.ev)
    THEN atoms.LiqStrength =
            IF HasLiquidationFlag(last.ev)
            THEN QMul(StrengthOf(mp.LiqState, last.ev.Price), QInt(2))
            ELSE StrengthOf(mp.LiqState, last.ev.Price)
    ELSE /\ atoms.LiqStrength = QMul(last.strBefore, [n |-> 19, d |-> 20])
         /\ mp.LiqState = last.liqBefore

\* C27 as stated: on every qualifying trade the emitted strength is
\* volume * (1 + |p - start_price| * 100) * side, doubled exactly under flag
\* bit 128; on every other event the strength emitted before is multiplied by
\* 0.95 and the run is left as it was
C27_LiquidationStrength_Stated ==
    (pc = "idle" /\ nEv >= 1) => LiquidationLaw

\* C27, amended: the same for every event processed on the normal path, that
\* is neither the first event of a pass nor an event after a sequence gap
C27_LiquidationStrength ==
    Processed => LiquidationLaw

\* a book update after a flagged buy of 2: the strength 4 decays to 3.8 and
\* the run stays
C27_Witness ==
    /\ Processed
    /\ last.ev.Action = 65
    /\ last.strBefore = QInt(4)
    /\ atoms.LiqStrength = [n |-> 19, d |-> 5]
    /\ mp.LiqState.Active /\ mp.LiqState.Volume = QInt(2)

\* the changes of the bid and ask size from the previous record to the last
dQb == QSub(last.ev.BidSz, last.PrevBidSz)

dQa == QSub(last.ev.AskSz, last.PrevAskSz)

\* the value a window received last, and the mean of what it holds
LastFed(w) == w.Buf[((w.Head + w.Size - 1) % w.Size) + 1]

MeanOf(w) == QDivInt(w.Sum, w.Count)

\* the emitted OFI is the rolling mean of the values fed, the last being x
EmitsMeanWith(x) ==
    /\ last.ofiVal = x
    /\ LastFed(mp.OFIWindow) = x
    /\ atoms.RawOFI = MeanOf(mp.OFIWindow)

SweepRatio(Q) == QNorm(last.ev.Size.n * Q.d, last.ev.Size.d * Q.n)

\* +r for a buy, -r for a sell when r >= 1, and 0 otherwise
SweepSignal ==
    LET Q == IF last.ev.Side = 1 THEN last.PrevAskSz ELSE last.PrevBidSz
        r == SweepRatio(Q)
    IN  IF QLt(r, QInt(1)) THEN QZero
        ELSE IF last.ev.Side = 1 THEN r ELSE QNeg(r)

SweepingTrade == Processed /\ last.ev.Action = 84 /\ last.ev.Side # 0

\* the sweep window holds exactly the signals of two buys, the first at the
\* threshold (r = 1) and the second above it
TwoSweeps ==
    /\ SweepingTrade /\ last.ev.Side = 1
    /\ mp.SweepWindow.Count = 2
    /\ mp.SweepWindow.Buf[mp.SweepWindow.Head + 1] = QInt(1)
    /\ QLt(QInt(1), LastFed(mp.SweepWindow))

PerOrder(Q, N) == QDivInt(Q, IF N > 1 THEN N ELSE 1)

\* the emitted crowding skew is the bid rolling mean minus the ask one
SkewOfMeans ==
    atoms.CrowdSkew = QSub(MeanOf(mp.AvgBidSzWindow), MeanOf(mp.AvgAskSzWindow))

\* C30: on every normally processed event the bid and ask average-size
\* windows are fed Qb / max(1, Nb) and Qa / max(1, Na), the size itself when
\* the order count is 0, and the crowding skew is the difference of the means
C30_CrowdingInputs ==
    Processed =>
        /\ LastFed(mp.AvgBidSzWindow) = PerOrder(last.ev.BidSz, last.ev.BidCt)
        /\ LastFed(mp.AvgAskSzWindow) = PerOrder(last.ev.AskSz, last.ev.AskCt)
        /\ SkewOfMeans

\* what holds: a side with orders is fed Q / N, a side without orders is fed
\* 0, and the crowding skew is the difference of the means
CrowdingInputsOfCode ==
    Processed =>
        /\ LastFed(mp.AvgBidSzWindow) =
              IF last.ev.BidCt > 0 THEN PerOrder(last.ev.BidSz, last.ev.BidCt) ELSE QZero
        /\ LastFed(mp.AvgAskSzWindow) =
              IF last.ev.AskCt > 0 THEN PerOrder(last.ev.AskSz, last.ev.AskCt) ELSE QZero
        /\ SkewOfMeans

\* an event with a bid of size 3 and no bid order has been processed
EmptyBidSideFed ==
    /\ Processed /\ last.ev.BidCt = 0 /\ last.ev.BidSz = QInt(3)
    /\ LastFed(mp.AvgBidSzWindow) = QZero

-----------------------------------------------------------------------------
(* Claims about the value of the horizon cursors, checked under SpecCursor *)

\* the indices c >= k of tape t with t[c] >= t[k] + h, in exact arithmetic
Targets(t, k, h) ==
    { c \in k..(Len(t) - 1) : t[c + 1] >= t[k + 1] + HorizonDurations[h] }

\* the first such index, or n - 1 when there is none
FirstTarget(t, k, h) ==
    IF Targets(t, k, h) = {} THEN Len(t) - 1
    ELSE CHOOSE c \in Targets(t, k, h) : \A d \in Targets(t, k, h) : c <= d

\* C25.  Horizon cursor value: for every event i and horizon h the cursor
\* produced by the forward search is the first index c >= i with
\* ts_event[c] >= ts_event[i] + h, or n - 1 when there is no such index, and
\* then the return of the event is marked undefined.
C25_HorizonCursorValue ==
    AfterIteration =>
        \A h \in Horizons :
            /\ cursors[h] = FirstTarget(tsEvents, iter.i, h)
            /\ Targets(tsEvents, iter.i, h) = {} => iter.ret[h] = "NaN"

\* the timestamps of a tape never decrease
Ascending(t) == \A k \in 1..(Len(t) - 1) : t[k] <= t[k + 1]

\* ts_event[i] + h fits in a uint64 for the event of the last iteration
TargetFits(h) == tsEvents[iter.i + 1] + HorizonDurations[h] < TsMod

\* what holds on an ascending tape while the target fits: RunStrategy's
\* cursor is the first target or n - 1 and its return is a number in both
\* cases; RunMultiHorizonStudy's cursor is the first target or n, and n
\* gives an undefined return
CursorValueOfCode ==
    (AfterIteration /\ Ascending(tsEvents)) =>
        \A h \in Horizons :
            TargetFits(h) =>
                IF Targets(tsEvents, iter.i, h) # {}
                THEN /\ cursors[h] = FirstTarget(tsEvents, iter.i, h)
                     /\ iter.ret[h] = "num"
                ELSE \/ cursors[h] = Len(tsEvents) - 1 /\ iter.ret[h] = "num"
                     \/ cursors[h] = Len(tsEvents) /\ iter.ret[h] = "NaN"

\* RunStrategy on an ascending tape at its last event: no event lies 10 s
\* later, the cursor is clamped to n - 1 and the return is a number
ClampedReturnIsNumber ==
    /\ loop = "done" /\ Ascending(tsEvents) /\ Len(tsEvents) = MaxTape
    /\ iter.i = Len(tsEvents) - 1 /\ TargetFits(1)
    /\ Targets(tsEvents, iter.i, 1) = {}
    /\ cursors[1] = Len(tsEvents) - 1
    /\ iter.ret[1] = "num"

\* the tape of the example in units of 5 s (0, 5, 10, 15, 25 s), and the
\* cursors of the 10 s horizon that the forward search gives for it, each
\* from the cursor of the event before
ExampleTape == <<0, 1, 2, 3, 5>>

RECURSIVE ExampleCursor(_)
ExampleCursor(k) ==
    LET c0 == IF k = 0 THEN 0 ELSE ExampleCursor(k - 1)
        c2 == Advance(ExampleTape, IF c0 < k THEN k ELSE c0, ExampleTape[k + 1] + 2)
    IN  IF c2 >= Len(ExampleTape) THEN Len(ExampleTape) - 1 ELSE c2

\* the cursors the example states, and the cursors of the search
ExampleAsStated == [k \in 0..4 |-> ExampleCursor(k)] = [k \in 0..4 |-> <<2, 2, 3, 4, 4>>[k + 1]]

ExampleOfCode == [k \in 0..4 |-> ExampleCursor(k)] = [k \in 0..4 |-> <<2, 3, 4, 4, 4>>[k + 1]]

-----------------------------------------------------------------------------
(* Claims about the study drivers, checked under SpecDriver and             *)
(* SpecDriverFair                                                           *)

\* the tape of job j decodes
Decodes(j) == Outcome[jobs[j]].status = "ok"

\* how often job j occurs in a log
TimesIn(log, j) == log[j]

\* no failing tape is in the portfolio, no tape is run or merged twice, and
\* when the driver has returned every goroutine is done and every tape that
\* decodes has been run once and merged once
C21_Outcome ==
    /\ \A j \in 1..Len(jobs) :
          /\ ~Decodes(j) => TimesIn(master, j) = 0 /\ TimesIn(ranLog, j) = 0
          /\ TimesIn(master, j) <= 1 /\ TimesIn(ranLog, j) <= 1
    /\ drv.pc = "returned" =>
          \A j \in 1..Len(jobs) :
              /\ wk[j].pc = "done"
              /\ Decodes(j) => TimesIn(ranLog, j) = 1 /\ TimesIn(master, j) = 1

\* C21.  Decode errors are never fatal: for any set of tape files in which
\* some fail to decode, the driver returns after all jobs finish, a failing
\* tape contributes nothing to the portfolio, and every tape that decodes is
\* run and merged exactly once.
C21_DecodeErrorsNotFatal == []C21_Outcome /\ <>(drv.pc = "returned")

\* no tape of the run carries a total_rows beyond what can be allocated
NoHugeTape == \A j \in 1..Len(jobs) : jobs[j] # "huge"

\* what holds: a run without such a tape returns, with the stated portfolio
ReturnsUnlessPanic == NoHugeTape => ([]C21_Outcome /\ <>(drv.pc = "returned"))

\* a run with two sound tapes and a foreign one between them has returned
ReturnedPastFailures ==
    /\ drv.pc = "returned"
    /\ jobs = <<"good", "foreign", "good">>
    /\ \A j \in 1..Len(jobs) : master[j] = IF Decodes(j) THEN 1 ELSE 0

\* the process has ended on the panic of a goroutine while another was at
\* work on a sound tape
CrashedOnHugeTape ==
    /\ drv.pc = "crashed"
    /\ \E a, b \in 1..Len(jobs) :
          jobs[a] = "huge" /\ jobs[b] = "good" /\ wk[b].pc = "run"

\* goroutine j is between its get and its put
Holding(j) ==
    \/ wk[j].pc \in {"decode", "errput", "run", "put"}
    \/ drv.mode = "test" /\ wk[j].pc = "merge"

Holders(c) == { j \in 1..Len(jobs) : Holding(j) /\ wk[j].cols = c }

\* C22.  Container pool exclusive ownership: under any interleaving a
\* container got by LoadQuantDev is held by at most one goroutine between
\* get and put, is in the pool for nobody else meanwhile, is never touched by
\* a goroutine that has put it back, and is put back at most once per get,
\* the decode-error path included.
C22_PoolOwnership ==
    /\ \A c \in 1..Len(tbbo.owner) :
          /\ Cardinality(Holders(c)) <= 1
          /\ tbbo.puts[c] <= tbbo.gets[c]
          /\ tbbo.gets[c] - tbbo.puts[c] = Cardinality(Holders(c))
          /\ Holders(c) # {} => c \notin tbbo.free /\ Holders(c) = {tbbo.owner[c]}
    /\ ~stale

\* a container that came back on the decode-error path is held again, by
\* another goroutine, while a second container is held beside it
C22_Witness ==
    /\ \E c \in 1..Len(tbbo.owner) :
          /\ tbbo.gets[c] = 2 /\ tbbo.puts[c] = 1
          /\ \E j \in 1..Len(jobs) : ~Decodes(j) /\ wk[j].cols = c /\ wk[j].pc = "done"
          /\ \E j \in Holders(c) : wk[j].pc = "run"
    /\ Cardinality({ j \in 1..Len(jobs) : Holding(j) }) = 2

-----------------------------------------------------------------------------
(* Claims about the encoder's chunks, checked under SpecCodec and           *)
(* SpecEncoderIO                                                            *)

\* AddRow has returned nil in this step
AddRowReturnsNil == enc'.totalRows = enc.totalRows + 1 /\ enc'.failed = enc.failed

\* a chunk has been written whole in this step
ChunkWritten ==
    /\ Len(enc'.chunkOffsets) = Len(enc.chunkOffsets) + 1
    /\ enc'.failed = enc.failed

\* the length word of the chunk written last
LastChunkLen == Uint(file', enc'.chunkOffsets[Len(enc'.chunkOffsets)], 4)

ChunkingLaw ==
    /\ AddRowReturnsNil =>
          /\ \A c \in ColNames : Len(enc'.stage[c]) = Len(enc'.stage["TsEvent"])
          /\ Len(enc'.stage["TsEvent"]) < ChunkSize
          /\ Len(enc.stage["TsEvent"]) + 1 >= ChunkSize => ChunkWritten
    /\ ChunkWritten =>
          /\ 1 <= LastChunkLen /\ LastChunkLen <= ChunkSize
          /\ AddRowReturnsNil => LastChunkLen = ChunkSize

\* C36.  Encoder chunking: after every AddRow that returns without error all
\* 18 staging columns have the same length and it is below the chunk size;
\* every chunk written has between 1 and the chunk size rows, and every
\* chunk but the one Close writes has exactly the chunk size.
C36_EncoderChunking == [][ChunkingLaw]_vars

\* what holds: the same on an output file that takes every write, by another
\* name so that each specification has its own formula
ChunkingWithoutWriteErrors == [][enc.failed = 0 => ChunkingLaw]_vars

\* a chunk of more rows than the chunk size is in the file
OversizeChunkWritten ==
    /\ enc.failed = 1
    /\ enc.chunkOffsets # <<>>
    /\ Len(file) >= enc.chunkOffsets[Len(enc.chunkOffsets)] + 4
    /\ Uint(file, enc.chunkOffsets[Len(enc.chunkOffsets)], 4) > ChunkSize
    /\ enc.stage["TsEvent"] = <<>>

-----------------------------------------------------------------------------
(* Claims about the liquidation run as a state, checked under SpecPhysics *)

\* an active run has a side, a volume, and an extremum on the run's side of
\* the start price
RunShape ==
    mp.LiqState.Active =>
        /\ mp.LiqState.Side \in {1, -1}
        /\ QLt(QZero, mp.LiqState.Volume)
        /\ mp.LiqState.Side = 1 => ~QLt(mp.LiqState.MaxPrice, mp.LiqState.StartPrice)
        /\ mp.LiqState.Side = -1 => ~QLt(mp.LiqState.StartPrice, mp.LiqState.MaxPrice)

\* the run after this step is that of the trade cur
RunIsOf ==
    /\ mp'.LiqState.Active
    /\ mp'.LiqState.Side = cur.Side
    /\ mp'.LiqState.LastSeq = cur.Sequence
    /\ mp'.LiqState.MaxPrice = cur.Price

\* C38 as stated: an active run has side +1 or -1, a positive volume and an
\* extremum that is the price of its most recent qualifying trade and lies
\* on the run's side of the start price; after any qualifying trade the run
\* is active with that trade's side and sequence.
C38_RunInvariant_Stated ==
    /\ []RunShape
    /\ [][ /\ (ComputeStep /\ Qualifying(cur)) => RunIsOf
           /\ (ComputeStep /\ ~Qualifying(cur)) => mp'.LiqState = mp.LiqState
           /\ CheckStep => mp'.LiqState \in {mp.LiqState, LiquidationIdle} ]_vars

\* C38, amended: the same, for the qualifying trades processed on the normal
\* path; a trade that is the first event or follows a gap is only snapshot
\* and leaves no run
C38_RunInvariant ==
    /\ []RunShape
    /\ [][ /\ (ComputeStep /\ Qualifying(cur) /\ mp.validHist) => RunIsOf
           /\ (ComputeStep /\ ~(Qualifying(cur) /\ mp.validHist)) =>
                 mp'.LiqState = mp.LiqState
           /\ (ComputeStep /\ ~mp.validHist) => ~mp'.LiqState.Active
           /\ CheckStep => mp'.LiqState \in {mp.LiqState, LiquidationIdle} ]_vars

\* a sell run of two trades, the second at a lower price than the first
C38_Witness ==
    /\ Processed /\ Qualifying(last.ev) /\ last.ev.Side = -1
    /\ last.liqBefore.Active /\ last.liqBefore.Side = -1
    /\ mp.LiqState.Volume = QInt(4)
    /\ QLt(mp.LiqState.MaxPrice, mp.LiqState.StartPrice)
    /\ mp.LiqState.MaxPrice = last.ev.Price
    /\ mp.LiqState.LastSeq = last.ev.Sequence

-----------------------------------------------------------------------------
(* Claims about the reuse of pooled containers, checked under SpecReuse *)

\* what a reader of the container sees: Count and each column as a slice
Visible(cols) ==
    [Count |-> cols.Count,
     col |-> [c \in ColNames |-> SubSeq(cols.col[c].arr, 1, cols.col[c].len)]]

\* the same file decoded into a fresh container
FreshDecode == loadFromFile(lq.bytes, NewColumns)

\* C39.  Pooled-container reuse is invisible: a tape decoded into a recycled
\* container that held any other tape gives the same Count and the same
\* columns over [0, Count) as decoded into a fresh container, all 18 columns
\* have length Count, and Reset and resize never shrink a backing array.
C39_ReuseInvisible ==
    lq.n >= 1 =>
        /\ lq.status = FreshDecode.status
        /\ lq.status = "ok" =>
              /\ Visible(lq.left) = Visible(FreshDecode.cols)
              /\ \A c \in ColNames : lq.left.col[c].len = lq.left.Count
        /\ lq.status # "ok" => lq.out = "nil"
        /\ \A c \in ColNames : Len(lq.left.col[c].arr) >= Len(lq.got.col[c].arr)

\* a tape of one row decoded into the container that held a tape of three
\* rows, whose second and third rows are still in the backing arrays
C39_Witness ==
    /\ lq.n = 2 /\ lq.status = "ok"
    /\ lq.got.Count = 3
    /\ lq.left.Count = 1
    /\ Len(lq.left.col["TsEvent"].arr) = 3
    /\ lq.left.col["PublisherID"].arr[1] # lq.got.col["PublisherID"].arr[1]

-----------------------------------------------------------------------------
(* Mid fallback of the horizon returns *)

\* the return was taken from a book mid that is not positive
FromNonPositiveBookMid ==
    \/ hret.mid = Mid(hret.ev) /\ Mid(hret.ev).n <= 0
    \/ hret.futMid = Mid(hret.fut) /\ Mid(hret.fut).n <= 0

\* C31: the current mid of a horizon return is the book mid (B + A) / 2, or
\* the trade price when the book mid is below epsilon; the future mid at the
\* cursor follows the same rule; and no logarithm is taken of a quotient
\* made from a book mid that is not positive.
C31_MidFallback ==
    hret.loop # "none" =>
        /\ hret.mid = RobustMid(hret.ev)
        /\ hret.futMid = RobustMid(hret.fut)
        /\ hret.logged => ~FromNonPositiveBookMid

\* what holds of the code: RunMultiHorizonStudy follows the rule ...
StudyReturnFallsBack ==
    hret.loop = "study" =>
        /\ hret.mid = RobustMid(hret.ev)
        /\ hret.futMid = RobustMid(hret.fut)
        /\ hret.logged => ~FromNonPositiveBookMid

\* ... and RunStrategy always takes the logarithm of the two book mids
StrategyReturnOfBookMids ==
    hret.loop = "strategy" =>
        /\ hret.mid = Mid(hret.ev)
        /\ hret.futMid = Mid(hret.fut)
        /\ hret.logged

\* RunStrategy divided by the mid of an empty book although the row is a
\* trade that printed at 100
LogOfEmptyBookMid ==
    /\ hret.loop = "strategy"
    /\ hret.ev.Price = QInt(100)
    /\ Mid(hret.ev) = QZero
    /\ Mid(hret.fut) = QDivInt(QInt(201), 2)
    /\ hret.ret = "+Inf"

-----------------------------------------------------------------------------
(* Signal box *)

\* x is a number of [-b, b]
InBox(x, b) == x.k = "num" /\ ~QLt(x.v, QInt(0 - b)) /\ ~QLt(QInt(b), x.v)

Primitives == SigIdx_TrueOFI..SigIdx_Liquidation

\* |liq_strength| <= 50
LiqStrengthSmall(a) ==
    a.LiqStrength.k = "num" /\ ~QLt(QInt(50), QAbs(a.LiqStrength.v))

\* the four atoms that reach their signal through a scaling and a clamp only
ScaledAtoms(a) == <<a.RawOFI, a.CrowdSkew, a.LatUrgency, a.SweepKappa>>

\* the result is the same whatever the physics state, the row, the index and
\* the previous contents of the array
OnlyOfAtoms(a, res) ==
    \A m \in {NewMarketPhysics, mp}, raw \in {NoRow, cur}, i \in {0, 1, nEv},
       out \in {ZeroSignals, StaleSignals, alphas} :
        res = SignalEngineCompute(a, m, raw, i, out)

\* C32 as stated: for every atom vector Compute writes all six outputs, the
\* five primitive signals lie in [-5, 5], the integrated signal in [-10, 10],
\* the liquidation signal is 0 when |liq_strength| <= 50, and the outputs
\* depend on nothing but the atom vector.
C32_SignalBox_Stated ==
    [][Compute =>
        /\ \A k \in Primitives : InBox(alphas'[k], 5)
        /\ InBox(alphas'[SigIdx_IntegratedState], 10)
        /\ LiqStrengthSmall(atoms) => alphas'[SigIdx_Liquidation] = Flt(0, 1)
        /\ OnlyOfAtoms(atoms, alphas')]_vars

\* C32: the same with the box limited to atoms that are not NaN: a primitive
\* signal lies in [-5, 5] unless its atom is NaN, in which case it is NaN
\* (the liquidation signal is then 0); the integrated signal lies in
\* [-10, 10] unless one of the four scaled atoms is NaN, in which case it is
\* NaN.
C32_SignalBox ==
    [][Compute =>
        /\ \A k \in 1..4 :
              IF ScaledAtoms(atoms)[k].k = "nan"
              THEN alphas'[k] = NaN ELSE InBox(alphas'[k], 5)
        /\ InBox(alphas'[SigIdx_Liquidation], 5)
        /\ IF \E k \in 1..4 : ScaledAtoms(atoms)[k].k = "nan"
           THEN alphas'[SigIdx_IntegratedState] = NaN
           ELSE InBox(alphas'[SigIdx_IntegratedState], 10)
        /\ (LiqStrengthSmall(atoms) \/ atoms.LiqStrength.k = "nan")
              => alphas'[SigIdx_Liquidation] = Flt(0, 1)
        /\ OnlyOfAtoms(atoms, alphas')]_vars

\* Compute has clamped a large flow, a large liquidation strength and the
\* weighted sum of atoms none of which is NaN, over a stale array
C32_Witness ==
    /\ atoms.RawOFI = Flt(-12, 1) /\ atoms.CrowdSkew = Flt(30, 1)
    /\ atoms.LatUrgency = Flt(3, 1) /\ atoms.SweepKappa = Flt(3, 1)
    /\ atoms.LiqStrength = Flt(600, 1)
    /\ alphas = <<Flt(-5, 1), Flt(5, 1), Flt(5, 1), Flt(5, 1), Flt(5, 1), Flt(10, 1)>>

\* a NaN atom came out as a NaN signal and a NaN integrated signal
NaNSignalComputed ==
    /\ atoms.CrowdSkew = NaN
    /\ alphas[SigIdx_Crowding] = NaN
    /\ alphas[SigIdx_IntegratedState] = NaN

-----------------------------------------------------------------------------
(* Head-keep retention *)

\* the first k elements of a sequence, all of it when it is shorter
FirstOf(q, k) == SubSeq(q, 1, IF Len(q) < k THEN Len(q) ELSE k)

\* the signals and the returns of a sequence of observations
SigsOf(o) == [j \in 1..Len(o) |-> o[j][1]]
RetsOf(o) == [j \in 1..Len(o) |-> o[j][2]]

\* every list a local report retains is the head of what its accumulator
\* accepted, cut at the cap
HeadKept ==
    \A w \in Workers :
        /\ locals[w].rep.Signals.Sig = FirstOf(SigsOf(locals[w].obs), maxICSamples)
        /\ locals[w].rep.Signals.Ret = FirstOf(RetsOf(locals[w].obs), maxICSamples)
        /\ locals[w].rep.Trades.Returns = FirstOf(locals[w].nets, maxReturnsPerStat)

\* a step in which some MergeLocal merged its data
Merged == mergedOrder' # mergedOrder

\* the global report of a symbol before it exists is an empty one
GlobalOf(a, sym) == IF sym \in DOMAIN a THEN a[sym] ELSE NewSymbolReport

\* the merge appended the head of the source's lists that fits, kept what the
\* destination held and left the source and the other symbols alone
MergeKeepsHead ==
    LET w   == mergedOrder'[Len(mergedOrder')]
        sym == locals[w].sym
        src == locals[w].rep
        old == GlobalOf(assets, sym)
        new == assets'[sym]
    IN  /\ new.Signals.Sig = old.Signals.Sig \o
                FirstOf(src.Signals.Sig, maxICSamples - Len(old.Signals.Sig))
        /\ new.Signals.Ret = old.Signals.Ret \o
                FirstOf(src.Signals.Ret, maxICSamples - Len(old.Signals.Ret))
        /\ new.Trades.Returns = old.Trades.Returns \o
                FirstOf(src.Trades.Returns, maxReturnsPerStat - Len(old.Trades.Returns))
        /\ locals' = locals
        /\ \A s \in DOMAIN assets \ {sym} : assets'[s] = assets[s]

\* C33: each retained list is the head of its accumulator's accepted
\* observations (Observe and Update append below the cap only and never
\* evict or reorder), and MergeLocal appends the source's samples in order up
\* to the destination's remaining capacity, leaving the destination's
\* samples and the source report as they were.
C33_HeadKeep == []HeadKept /\ [][Merged => MergeKeepsHead]_vars

\* both caps were hit: a local report was given more observations than it
\* keeps, and a merge cut the second report's samples
C33_Witness ==
    /\ Len(mergedOrder) = 2
    /\ \E w \in Workers : Len(locals[w].obs) > maxICSamples
    /\ Len(locals[mergedOrder[1]].rep.Signals.Sig) >= 1
    /\ Len(locals[mergedOrder[1]].rep.Signals.Sig)
         + Len(locals[mergedOrder[2]].rep.Signals.Sig) > maxICSamples
    /\ Len(locals[mergedOrder[1]].rep.Trades.Returns)
         + Len(locals[mergedOrder[2]].rep.Trades.Returns) > maxReturnsPerStat
    /\ Len(assets["ES"].Signals.Sig) = maxICSamples

-----------------------------------------------------------------------------
(* ICStats list pairing *)

\* the (Sig[j], Ret[j]) pairs of an ICStats, as far as both lists go
PairsIn(ic) ==
    [j \in 1..(IF Len(ic.Sig) < Len(ic.Ret) THEN Len(ic.Sig) ELSE Len(ic.Ret)) |->
        <<ic.Sig[j], ic.Ret[j]>>]

\* the pairs of the local reports of the workers ws, in that order
RECURSIVE PairsOfLocals(_)
PairsOfLocals(ws) ==
    IF ws = <<>> THEN <<>>
    ELSE PairsIn(locals[Head(ws)].rep.Signals) \o PairsOfLocals(Tail(ws))

\* the workers of mergedOrder whose report is of symbol sym
RECURSIVE MergedOf(_, _)
MergedOf(ws, sym) ==
    IF ws = <<>> THEN <<>>
    ELSE IF locals[Head(ws)].sym = sym
         THEN <<Head(ws)>> \o MergedOf(Tail(ws), sym)
         ELSE MergedOf(Tail(ws), sym)

\* C37: every ICStats has as many signals as returns, and Sig[j] and Ret[j]
\* come from the same observation: in a local report pair j is the j-th
\* observation accepted, in a global report the pairs are those of the merged
\* local reports, in merge order, cut at the cap.
C37_ListPairing ==
    /\ \A w \in Workers :
          /\ Len(locals[w].rep.Signals.Sig) = Len(locals[w].rep.Signals.Ret)
          /\ PairsIn(locals[w].rep.Signals) = FirstOf(locals[w].obs, maxICSamples)
    /\ \A sym \in DOMAIN assets :
          /\ Len(assets[sym].Signals.Sig) = Len(assets[sym].Signals.Ret)
          /\ PairsIn(assets[sym].Signals) =
                FirstOf(PairsOfLocals(MergedOf(mergedOrder, sym)), maxICSamples)

\* two reports merged, the second one cut in the middle, after a NaN
\* observation was rejected and one above the cap dropped
C37_Witness ==
    /\ Len(mergedOrder) = 2
    /\ \E w \in Workers : locals[w].n > Len(locals[w].obs)
    /\ \E w \in Workers : Len(locals[w].obs) > Len(locals[w].rep.Signals.Sig)
    /\ Len(locals[mergedOrder[1]].rep.Signals.Sig) = 1
    /\ Len(locals[mergedOrder[2]].rep.Signals.Sig) = 2
    /\ PairsIn(assets["ES"].Signals) =
          PairsIn(locals[mergedOrder[1]].rep.Signals) \o
          FirstOf(PairsIn(locals[mergedOrder[2]].rep.Signals), 1)
    /\ PairsIn(locals[mergedOrder[2]].rep.Signals)[1] # PairsIn(locals[mergedOrder[2]].rep.Signals)[2]

-----------------------------------------------------------------------------
(* No lost merges *)

\* the workers whose local report is of symbol sym
WorkersOf(sym) == { w \in Workers : locals[w].sym = sym }

\* the sums of a whole-number field and of a float field over the local
\* reports of the workers ws
RECURSIVE CountOver(_, _)
CountOver(ws, field) ==
    IF ws = {} THEN 0
    ELSE LET w == CHOOSE x \in ws : TRUE
         IN  locals[w].rep.Trades[field] + CountOver(ws \ {w}, field)

RECURSIVE SumOver(_, _)
SumOver(ws, field) ==
    IF ws = {} THEN Num(0)
    ELSE LET w == CHOOSE x \in ws : TRUE
         IN  FAdd(locals[w].rep.Trades[field], SumOver(ws \ {w}, field))

AllReturned == \A w \in Workers : wpc[w] = "done"

\* C40: when all the concurrent MergeLocal calls have returned, the portfolio
\* holds one report for each symbol that was merged and none for the others,
\* and the Count, the Wins and the moment sums of that report are the sums
\* over the local reports of that symbol, whatever the interleaving was.
C40_NoLostMerges ==
    AllReturned =>
        /\ DOMAIN assets = { locals[w].sym : w \in Workers }
        /\ \A sym \in DOMAIN assets :
              /\ \A field \in {"Count", "Wins"} :
                    assets[sym].Trades[field] = CountOver(WorkersOf(sym), field)
              /\ \A field \in {"TotalPnL", "SumPnL", "SumPnL2", "SumPnL3", "SumPnL4"} :
                    assets[sym].Trades[field] = SumOver(WorkersOf(sym), field)

\* both workers merged a report with trades into the same symbol and have
\* returned
C40_Witness ==
    /\ AllReturned
    /\ locals["A"].sym = locals["B"].sym
    /\ locals["A"].rep.Trades.Count = 2
    /\ locals["B"].rep.Trades.Count = 1
    /\ assets[locals["A"].sym].Trades.Count = 3
    /\ assets[locals["A"].sym].Trades.SumPnL = Num(3)

-----------------------------------------------------------------------------
(* Ranks of RankIC *)

\* r gives the samples of v the ranks 1..n, a smaller value a lower rank
RanksByValue(r, v) ==
    /\ Len(r) = Len(v)
    /\ { r[i] : i \in 1..Len(r) } = 1..Len(v)
    /\ \A i, j \in 1..Len(v) : FGt(v[j], v[i]) => r[i] < r[j]

\* among equal values the earlier sample has the lower rank
TiesByInputOrder(r, v) ==
    \A i, j \in 1..Len(v) : (i < j /\ v[i] = v[j]) => r[i] < r[j]

\* C34: the ranks RankIC gives to the n signals, and to the n returns, are a
\* permutation of 1..n ordered by value, and among equal values the sample
\* earlier in input order has the lower rank.
C34_RankAssignment ==
    (metric.fn = "RankIC" /\ metric.ranked) =>
        /\ RanksByValue(metric.rSig, metric.of.Sig)
        /\ RanksByValue(metric.rRet, metric.of.Ret)
        /\ TiesByInputOrder(metric.rSig, metric.of.Sig)
        /\ TiesByInputOrder(metric.rRet, metric.of.Ret)

\* what holds of the code: the ranks are a permutation ordered by value
RanksOrderedByValue ==
    (metric.fn = "RankIC" /\ metric.ranked) =>
        /\ RanksByValue(metric.rSig, metric.of.Sig)
        /\ RanksByValue(metric.rRet, metric.of.Ret)

\* two samples with the same signal were ranked against their input order
TieRankedBackwards ==
    /\ metric.fn = "RankIC" /\ metric.ranked
    /\ metric.of.Sig = <<Num(1), Num(1)>>
    /\ metric.rSig = <<2, 1>>

-----------------------------------------------------------------------------
(* Degenerate input of DeltaLogLoss *)

IsZeroLoss(l) == \A i \in 1..Len(l) : l[i] = QInt(1)

ReturnsZeros(m) == IsZeroLoss(m.baseline) /\ IsZeroLoss(m.model) /\ m.delta = "zero"

ConstantSignal(s) == \A i, j \in 1..Len(s.Sig) : s.Sig[i] = s.Sig[j]

\* C35: DeltaLogLoss returns (0, 0, 0) when there are no retained samples
\* and when all retained signal values are equal.
C35_DegenerateLogLoss ==
    (metric.fn = "DeltaLogLoss" /\ ConstantSignal(metric.of)) => ReturnsZeros(metric)

\* what holds of the code: zeros for no samples; for a constant signal the
\* baseline loss twice and a delta of 0
DegenerateLogLossOfCode ==
    (metric.fn = "DeltaLogLoss" /\ ConstantSignal(metric.of)) =>
        /\ metric.delta = "zero"
        /\ metric.model = metric.baseline
        /\ Len(metric.of.Ret) = 0 => ReturnsZeros(metric)
        /\ IsZeroLoss(metric.baseline) <=>
              \A i, j \in 1..Len(metric.of.Ret) : Label(metric.of.Ret[i]) = Label(metric.of.Ret[j])

\* a constant signal with one return up and one down: the baseline loss
\* log 2 came back twice
ConstantSignalNonZeroLoss ==
    /\ metric.fn = "DeltaLogLoss"
    /\ metric.of = [Sig |-> <<Num(1), Num(1)>>, Ret |-> <<Num(1), Num(-1)>>]
    /\ metric.baseline = <<QNorm(1, 2), QNorm(1, 2)>>
    /\ metric.model = metric.baseline

====
